---------------------------- MODULE Spec2Model ----------------------------
(***************************************************************************)
(* State-machine model of the Lembreto REST API (reminders, tags, tag      *)
(* associations, notification log) and of the MySQL schema it runs on.     *)
(*                                                                         *)
(* Accented identifiers of the source are written without accents          *)
(* (Diaria, Saude, Terca, Sabado, Marco, Concluido).                       *)
(* The columns `descricao` and `data` of lembretes are carried by the      *)
(* handlers without taking part in any decision and are left out of the    *)
(* rows; requests are assumed to supply them (null or a value).            *)
(***************************************************************************)
EXTENDS Integers, Sequences, FiniteSets, TLC

VARIABLES
  lembretes,       \* table lembretes: id -> row
  lembreteSeq,     \* AUTO_INCREMENT of lembretes
  tags,            \* table tags: id -> row
  tagSeq,          \* AUTO_INCREMENT of tags
  lembretes_tags,  \* table lembretes_tags: committed set of <<lembrete_id, tag_id>>
  notificacoes,    \* table notificacoes: id -> row
  notifSeq,        \* AUTO_INCREMENT of notificacoes
  tx,              \* the in-flight transaction of POST /tags/lembrete/:lembreteId
  resp,            \* the last request served and the response sent for it
  lista,           \* proxima_execucao of each row of the last GET /lembretes
  agora,           \* the wall clock (seconds since 00:00:00 of day 0)
  esquema,         \* the script of src/sql the database was created from
  usuarios,        \* table usuarios: id -> row
  usuarioSeq,      \* AUTO_INCREMENT of usuarios
  chaveSeq,        \* the API keys crypto.randomBytes has produced so far
  registros,       \* the registrations between their SELECT and their INSERT
  reqUser,         \* req.user of the request that passed authMiddleware
  pedido,          \* the request to /verificacao being served
  conexoes,        \* the pool connections of concurrent POST /tags/lembrete/:lembreteId
  edicao           \* the PUT /lembretes/:id between its SELECT and its UPDATE

vars == <<lembretes, lembreteSeq, tags, tagSeq, lembretes_tags,
          notificacoes, notifSeq, tx, resp, lista, agora, esquema,
          usuarios, usuarioSeq, chaveSeq, registros, reqUser, pedido,
          conexoes, edicao>>

\* the user accounts and the requests that create them
contas == <<usuarios, usuarioSeq, chaveSeq, registros>>

store == <<lembretes, lembreteSeq, tags, tagSeq, lembretes_tags,
           notificacoes, notifSeq>>

-----------------------------------------------------------------------------
(* Bounds of the model *)

MaxLembretes == 2
MaxTags == 2
MaxNotificacoes == 2
MaxLembretesAssoc == 2
MaxTagsAssoc == 4
MaxTagIds == 2
MaxLembretesNotif == 2
MaxNotificacoesNotif == 2
MaxDia == 7
MaxAno == 1
MaxChaves == 4
MaxLembretesAuth == 1
MaxUsuarios == 4
MaxRegistros == 2
MaxLembretesCascata == 2
MaxTagsCascata == 2
MaxChavesGateway == 3

Usuarios == {1, 2}

\* the users whose requests the model of the whole API serves
Clientes == {1}

-----------------------------------------------------------------------------
(* JavaScript / SQL values.  String-valued fields are strings, with the    *)
(* two JavaScript non-values spelled out; number-valued fields and the     *)
(* time-of-day are tagged records so that every field has one shape.       *)

UNDEF == "undefined"
NULL == "null"

Undef == [k |-> "undef", v |-> 0]
Null == [k |-> "null", v |-> 0]
Num(n) == [k |-> "int", v |-> n]

HUndef == [k |-> "undef", v |-> <<>>]
HNull == [k |-> "null", v |-> <<>>]
Hora(h, m) == [k |-> "time", v |-> <<h, m>>]
HoraS(h, m, seg) == [k |-> "time", v |-> <<h, m, seg>>]

\* JavaScript truthiness (`!x`, `x && y`, `x || y`)
TruthyS(s) == s \notin {UNDEF, NULL, ""}
TruthyB(b) == b = "true"
TruthyI(x) == x.k = "int" /\ x.v # 0
TruthyH(x) == x.k = "time"
\* a date-time string of a request, a Date object read from a DATETIME column
TruthyD(x) == x.k = "int"

\* `x || null`
OrNullS(s) == IF TruthyS(s) THEN s ELSE NULL
OrNullI(x) == IF TruthyI(x) THEN x ELSE Null
OrNullH(x) == IF TruthyH(x) THEN x ELSE HNull
OrNullD(x) == IF TruthyD(x) THEN x ELSE Null

HttpStatus == [OK |-> 200, CREATED |-> 201, BAD_REQUEST |-> 400,
               UNAUTHORIZED |-> 401, FORBIDDEN |-> 403, NOT_FOUND |-> 404,
               CONFLICT |-> 409, UNPROCESSABLE_ENTITY |-> 422,
               INTERNAL_SERVER_ERROR |-> 500]

\* Errors that reach next(error)
AppError(statusCode, message) ==
  [name |-> "AppError", statusCode |-> statusCode, message |-> message, code |-> ""]
TypeError(message) ==
  [name |-> "TypeError", statusCode |-> 0, message |-> message, code |-> ""]
DbError(code) ==
  [name |-> "Error", statusCode |-> 0, message |-> "sql", code |-> code]

\* The boundary handler: status code and message of the error envelope
errorHandler(err) ==
  IF err.name = "AppError" THEN [code |-> err.statusCode, msg |-> err.message]
  ELSE IF err.name = "JsonWebTokenError"
       THEN [code |-> HttpStatus.UNAUTHORIZED, msg |-> "Token invalido"]
  ELSE IF err.name = "TokenExpiredError"
       THEN [code |-> HttpStatus.UNAUTHORIZED, msg |-> "Token expirado"]
  ELSE IF err.code = "ER_DUP_ENTRY"
       THEN [code |-> HttpStatus.CONFLICT, msg |-> "Registro duplicado"]
  ELSE [code |-> HttpStatus.INTERNAL_SERVER_ERROR, msg |-> "Erro interno do servidor"]

-----------------------------------------------------------------------------
(* Requests and responses *)

SemCorpo ==
  [titulo |-> UNDEF, tipo |-> UNDEF, data_hora |-> Undef, recorrente |-> UNDEF,
   frequencia |-> UNDEF, dia |-> Undef, hora |-> HUndef, dia_semana |-> UNDEF,
   mes |-> UNDEF]

NoResp ==
  [op |-> "none", user |-> 0, id |-> 0, code |-> 0, msg |-> "", data |-> {},
   body |-> SemCorpo]

\* res.status(code).json(successResponse(code, message, data))
Sucesso(op, u, id, code, data) ==
  [op |-> op, user |-> u, id |-> id, code |-> code, msg |-> "success",
   data |-> data, body |-> SemCorpo]

\* next(error), answered by errorHandler
Falha(op, u, id, err) ==
  [op |-> op, user |-> u, id |-> id, code |-> errorHandler(err).code,
   msg |-> errorHandler(err).msg, data |-> {}, body |-> SemCorpo]

\* Remove the keys in S from the function f
Sem(f, S) == [x \in (DOMAIN f) \ S |-> f[x]]

-----------------------------------------------------------------------------
(* Table usuarios and the Authorization header (middleware/auth.js).  An    *)
(* API key is the number of the crypto.randomBytes call that produced it;   *)
(* a string is a sequence of characters where the code looks inside it.     *)

\* the value of the Authorization header: absent, a scheme without a token,
\* an API key, or a JWT with its payload, its signature and its expiry
SemCabecalho == [k |-> "none", v |-> 0, userId |-> 0, assinatura |-> "", exp |-> 0]
SemToken == [k |-> "semToken", v |-> 0, userId |-> 0, assinatura |-> "", exp |-> 0]
Chave(c) == [k |-> "chave", v |-> c, userId |-> 0, assinatura |-> "", exp |-> 0]
Jwt(userId, assinatura, exp) ==
  [k |-> "jwt", v |-> 0, userId |-> userId, assinatura |-> assinatura, exp |-> exp]

\* req.user before authMiddleware has set it
SemSessao == [k |-> "none", userId |-> 0, cred |-> SemCabecalho]

\* jwt.verify(token, process.env.JWT_SECRET) at time t returns the payload
jwtVerify(cred, t) == cred.k = "jwt" /\ cred.assinatura = "ok" /\ t < cred.exp

\* SELECT id, status FROM usuarios WHERE api_key = ? AND status = "ativo"
UsuariosDaChave(cred) ==
  {u \in DOMAIN usuarios :
     cred.k = "chave" /\ usuarios[u].api_key = cred.v /\ usuarios[u].status = "ativo"}

\* the same SELECT without `AND status = "ativo"`
UsuarioAtivo_semStatus(id) == id \in DOMAIN usuarios

\* SELECT id FROM usuarios WHERE id = ? AND status = "ativo"
UsuarioAtivo(id) == id \in DOMAIN usuarios /\ usuarios[id].status = "ativo"

\* the same lookup of the API key without `AND status = "ativo"`
authMiddleware_semStatus(cred) ==
  LET porChave == {u \in DOMAIN usuarios : cred.k = "chave" /\ usuarios[u].api_key = cred.v} IN
  IF cred.k \in {"none", "semToken"}
    THEN [ok |-> FALSE, userId |-> 0, type |-> "",
          err |-> AppError(HttpStatus.UNAUTHORIZED, "Token nao fornecido")]
  ELSE IF porChave # {}
    THEN [ok |-> TRUE, userId |-> CHOOSE u \in porChave : TRUE, type |-> "api",
          err |-> AppError(0, "")]
  ELSE IF jwtVerify(cred, agora) /\ UsuarioAtivo(cred.userId)
    THEN [ok |-> TRUE, userId |-> cred.userId, type |-> "jwt", err |-> AppError(0, "")]
  ELSE [ok |-> FALSE, userId |-> 0, type |-> "",
        err |-> AppError(HttpStatus.UNAUTHORIZED, "Token invalido")]

\* authMiddleware: req.user, or the error handed to next(error)
authMiddleware(cred) ==
  IF cred.k \in {"none", "semToken"}
    THEN [ok |-> FALSE, userId |-> 0, type |-> "",
          err |-> AppError(HttpStatus.UNAUTHORIZED, "Token nao fornecido")]
  ELSE IF UsuariosDaChave(cred) # {}
    THEN [ok |-> TRUE, userId |-> CHOOSE u \in UsuariosDaChave(cred) : TRUE, type |-> "api",
          err |-> AppError(0, "")]
  \* a failed jwt.verify and the AppError of the inactive user are both
  \* caught and thrown again as 'Token invalido'
  ELSE IF jwtVerify(cred, agora) /\ UsuarioAtivo(cred.userId)
    THEN [ok |-> TRUE, userId |-> cred.userId, type |-> "jwt", err |-> AppError(0, "")]
  ELSE [ok |-> FALSE, userId |-> 0, type |-> "",
        err |-> AppError(HttpStatus.UNAUTHORIZED, "Token invalido")]

\* the middleware of a protected route runs on a request
Autenticar(cred) ==
  /\ resp.op = "none" /\ reqUser.k = "none"
  /\ LET a == authMiddleware(cred) IN
     IF a.ok THEN
       /\ reqUser' = [k |-> a.type, userId |-> a.userId, cred |-> cred]
       /\ resp' = resp
     ELSE
       /\ resp' = [Falha("authMiddleware", 0, 0, a.err) EXCEPT !.body = cred]
       /\ reqUser' = reqUser
  /\ UNCHANGED <<store, tx, lista, agora, esquema, pedido, conexoes, edicao, contas>>

\* the pool connections that concurrent association requests hold
Conexoes == {1, 2}

\* a connection of the pool with no transaction; code is the status of the
\* response of the request that held it
ConexaoLivre ==
  [pc |-> "idle", user |-> 0, id |-> 0, tagIds |-> <<>>, i |-> 0, ins |-> {},
   del |-> {}, code |-> 0]

SemConexoes == [c \in Conexoes |-> ConexaoLivre]

\* no PUT /lembretes/:id is between its SELECT and its UPDATE
SemEdicao == [pc |-> "idle", user |-> 0, id |-> 0, body |-> SemCorpo]

\* no request to /verificacao is being served; chamadas counts the calls made
\* to the provider for the last request and respostas the responses sent
SemPedido ==
  [pc |-> "idle", op |-> "none", numeros |-> <<>>, api_key |-> 0,
   chamadas |-> 0, respostas |-> 0,
   retorno |-> [k |-> "none", status |-> 0, data |-> ""]]

\* a row of usuarios
Usuario(email, telefone, api_key, status) ==
  [email |-> email, telefone |-> telefone, api_key |-> api_key, status |-> status]

\* Users 1 and 2 have registered (POST /usuarios/registro)
ContasIniciais ==
  /\ usuarios = (1 :> Usuario("a@x", <<"1", "1">>, 1, "ativo")
                  @@ 2 :> Usuario("b@x", <<"2", "2">>, 2, "ativo"))
  /\ usuarioSeq = 3
  /\ chaveSeq = 3
  /\ registros = <<>>
  /\ reqUser = SemSessao
  /\ pedido = SemPedido
  /\ conexoes = SemConexoes
  /\ edicao = SemEdicao

-----------------------------------------------------------------------------
(* The handlers of routes/usuarios.js *)

\* String.prototype.replace(/\D/g, ''): the digits of the string, in order
Digitos == {"0", "1", "2", "3", "4", "5", "6", "7", "8", "9"}
IsDigito(c) == c \in Digitos
telefoneNumerico(telefone) == SelectSeq(telefone, IsDigito)

\* the fields of a request body that are strings looked into: missing or a string
StrUndef == [k |-> "undef", v |-> <<>>]
Str(q) == [k |-> "str", v |-> q]
TruthyQ(x) == x.k = "str" /\ x.v # <<>>

CorpoRegistro(nome, email, senha, telefone) ==
  [nome |-> nome, email |-> email, senha |-> senha, telefone |-> telefone]

\* SELECT id FROM usuarios WHERE email = ? OR telefone = ?
ExistingUser(email, telefone) ==
  {u \in DOMAIN usuarios : usuarios[u].email = email \/ usuarios[u].telefone = telefone}

\* UNIQUE KEY email, UNIQUE KEY telefone, UNIQUE KEY api_key
ChavesUnicasLivres(row) ==
  \A u \in DOMAIN usuarios :
    /\ usuarios[u].email # row.email
    /\ usuarios[u].telefone # row.telefone
    /\ usuarios[u].api_key # row.api_key

RegistroOp == "POST /usuarios/registro"

\* router.post('/registro') up to `await bcrypt.hash(senha, 10)`: the
\* request n is validated and the existing users are read
RegistroSelect(n, b) ==
  /\ n \notin DOMAIN registros
  /\ IF ~TruthyS(b.nome) \/ ~TruthyS(b.email) \/ ~TruthyS(b.senha) \/ ~TruthyQ(b.telefone) THEN
       /\ resp' = [Falha(RegistroOp, 0, n, AppError(HttpStatus.BAD_REQUEST, "Erro de validacao"))
                   EXCEPT !.body = b]
       /\ registros' = registros
     ELSE IF ExistingUser(b.email, telefoneNumerico(b.telefone.v)) # {} THEN
       /\ resp' = [Falha(RegistroOp, 0, n,
                          AppError(HttpStatus.CONFLICT, "Email ou telefone ja cadastrado"))
                   EXCEPT !.body = b]
       /\ registros' = registros
     ELSE
       /\ registros' = (n :> b) @@ registros
       /\ resp' = resp
  /\ UNCHANGED <<store, tx, lista, agora, esquema, pedido, conexoes, edicao, usuarios, usuarioSeq, chaveSeq, reqUser>>

\* the same INSERT on a table without the unique keys
RegistroInsert_semChaveUnica(n) ==
  /\ n \in DOMAIN registros
  /\ LET b == registros[n]
         row == Usuario(b.email, telefoneNumerico(b.telefone.v), chaveSeq, "ativo") IN
     /\ usuarios' = (usuarioSeq :> row) @@ usuarios
     /\ resp' = [Sucesso(RegistroOp, usuarioSeq, n, HttpStatus.CREATED, {chaveSeq})
                 EXCEPT !.body = b]
  /\ usuarioSeq' = usuarioSeq + 1
  /\ chaveSeq' = chaveSeq + 1
  /\ registros' = Sem(registros, {n})
  /\ UNCHANGED <<store, tx, lista, agora, esquema, pedido, conexoes, edicao, reqUser>>

\* the rest of router.post('/registro'): the API key is drawn and the row
\* inserted; a duplicate of a unique key fails with ER_DUP_ENTRY, and the
\* failed INSERT has used up its AUTO_INCREMENT value
RegistroInsert(n) ==
  /\ n \in DOMAIN registros
  /\ LET b == registros[n]
         row == Usuario(b.email, telefoneNumerico(b.telefone.v), chaveSeq, "ativo") IN
     IF ChavesUnicasLivres(row) THEN
       /\ usuarios' = (usuarioSeq :> row) @@ usuarios
       /\ resp' = [Sucesso(RegistroOp, usuarioSeq, n, HttpStatus.CREATED, {chaveSeq})
                   EXCEPT !.body = b]
     ELSE
       /\ usuarios' = usuarios
       /\ resp' = [Falha(RegistroOp, 0, n, DbError("ER_DUP_ENTRY")) EXCEPT !.body = b]
  /\ usuarioSeq' = usuarioSeq + 1
  /\ chaveSeq' = chaveSeq + 1
  /\ registros' = Sem(registros, {n})
  /\ UNCHANGED <<store, tx, lista, agora, esquema, pedido, conexoes, edicao, reqUser>>

\* router.get('/perfil')
GetPerfil(u) ==
  /\ IF u \notin DOMAIN usuarios
       THEN resp' = Falha("GET /usuarios/perfil", u, u,
                          AppError(HttpStatus.NOT_FOUND, "Usuario nao encontrado"))
       ELSE resp' = Sucesso("GET /usuarios/perfil", u, u, HttpStatus.OK, {usuarios[u].api_key})
  /\ lista' = <<>>
  /\ UNCHANGED <<store, tx, agora, esquema, pedido, conexoes, edicao, contas, reqUser>>

RegenerarOp == "POST /usuarios/regenerar-api-key"

\* the same handler answering the new key without the UPDATE
RegenerarApiKey_semUpdate(u) ==
  /\ usuarios' = usuarios
  /\ chaveSeq' = chaveSeq + 1
  /\ resp' = Sucesso(RegenerarOp, u, u, HttpStatus.OK, {chaveSeq})
  /\ lista' = <<>>
  /\ UNCHANGED <<store, tx, agora, esquema, pedido, conexoes, edicao, usuarioSeq, registros, reqUser>>

\* router.post('/regenerar-api-key'): UPDATE usuarios SET api_key = ? WHERE id = ?
RegenerarApiKey(u) ==
  /\ usuarios' = IF u \in DOMAIN usuarios
                   THEN [usuarios EXCEPT ![u].api_key = chaveSeq] ELSE usuarios
  /\ chaveSeq' = chaveSeq + 1
  /\ resp' = Sucesso(RegenerarOp, u, u, HttpStatus.OK, {chaveSeq})
  /\ lista' = <<>>
  /\ UNCHANGED <<store, tx, agora, esquema, pedido, conexoes, edicao, usuarioSeq, registros, reqUser>>

CorpoUsuario(email, status) == [email |-> email, status |-> status]

\* router.put('/'): email and status of the caller
PutUsuario(u, b) ==
  /\ LET op == "PUT /usuarios" IN
     IF TruthyS(b.email) /\ \E v \in DOMAIN usuarios : v # u /\ usuarios[v].email = b.email THEN
       /\ resp' = [Falha(op, u, u, AppError(HttpStatus.CONFLICT, "Email ja esta em uso"))
                   EXCEPT !.body = b]
       /\ usuarios' = usuarios
     ELSE IF TruthyS(b.status) /\ b.status \notin {"ativo", "inativo"} THEN
       /\ resp' = [Falha(op, u, u, AppError(HttpStatus.BAD_REQUEST, "Status invalido"))
                   EXCEPT !.body = b]
       /\ usuarios' = usuarios
     ELSE IF ~TruthyS(b.email) /\ ~TruthyS(b.status) THEN
       /\ resp' = [Falha(op, u, u, AppError(HttpStatus.BAD_REQUEST,
                                            "Nenhum campo para atualizar foi fornecido"))
                   EXCEPT !.body = b]
       /\ usuarios' = usuarios
     ELSE
       /\ usuarios' =
            IF u \in DOMAIN usuarios
              THEN [usuarios EXCEPT
                      ![u].email = IF TruthyS(b.email) THEN b.email ELSE @,
                      ![u].status = IF TruthyS(b.status) THEN b.status ELSE @]
              ELSE usuarios
       /\ resp' = [Sucesso(op, u, u, HttpStatus.OK, {}) EXCEPT !.body = b]
  /\ lista' = <<>>
  /\ UNCHANGED <<store, tx, agora, esquema, pedido, conexoes, edicao, usuarioSeq, chaveSeq, registros, reqUser>>

-----------------------------------------------------------------------------
(* The Messaging Gateway (services/whatsappService.js) and the handlers of  *)
(* routes/verificacao.js                                                     *)

VerificarOp == "POST /verificacao/whatsapp"
SalvarOp == "POST /verificacao/salvar-contato"

\* what axios.post gets from the provider: a 2xx answer with a list or with
\* something else, an answer with another status and the provider's detail,
\* or no answer at all
GatewayOk(existe) == [k |-> "ok", status |-> 200, data |-> IF existe THEN "exists" ELSE "absent"]
GatewayNaoLista == [k |-> "ok", status |-> 200, data |-> "objeto"]
GatewayErroHttp(status, detalhe) == [k |-> "http", status |-> status, data |-> detalhe]
GatewayErroRede == [k |-> "rede", status |-> 0, data |-> ""]

\* the error axios throws for an answer that is not 2xx; the provider's
\* detail is error.response.data
AxiosError(r) ==
  [name |-> "AxiosError", statusCode |-> 0,
   message |-> IF r.k = "http" THEN "Request failed with status code" ELSE "connect ECONNREFUSED",
   code |-> IF r.k = "http" THEN "ERR_BAD_RESPONSE" ELSE "ECONNREFUSED",
   response |-> r]

\* numeros of a request body: missing, not an array, or an array of strings
NumerosUndef == [k |-> "undef", v |-> <<>>]
NumerosTexto == [k |-> "texto", v |-> <<>>]
NumerosArray(v) == [k |-> "array", v |-> v]
CorpoVerificacao(numeros) == [numeros |-> numeros]
CorpoSalvar(api_key) == [api_key |-> api_key]

\* numeros.map(numero => numero.replace(/\D/g, ''))
numerosLimpos(numeros) == [i \in DOMAIN numeros |-> telefoneNumerico(numeros[i])]

\* router.post('/whatsapp') up to the call of the provider
VerificarWhatsapp(b) ==
  /\ pedido.pc = "idle"
  /\ IF b.numeros.k # "array" \/ Len(b.numeros.v) = 0 THEN
       /\ resp' = [Falha(VerificarOp, 0, 0,
                          AppError(HttpStatus.BAD_REQUEST, "Lista de numeros invalida"))
                   EXCEPT !.body = b]
       /\ pedido' = [SemPedido EXCEPT !.op = VerificarOp, !.respostas = 1]
     ELSE
       /\ resp' = resp
       /\ pedido' = [SemPedido EXCEPT !.pc = "gateway", !.op = VerificarOp,
                                      !.numeros = numerosLimpos(b.numeros.v)]
  /\ lista' = <<>>
  /\ UNCHANGED <<store, tx, agora, esquema, conexoes, edicao, contas, reqUser>>

\* WhatsAppService.verificarNumeros: the one axios.post and what the handler
\* does with its outcome r
VerificarNumeros(r) ==
  /\ pedido.pc = "gateway" /\ pedido.op = VerificarOp
  /\ pedido' = [pedido EXCEPT !.pc = "idle", !.chamadas = @ + 1, !.respostas = @ + 1,
                              !.retorno = r]
  /\ resp' = IF r.k = "ok" /\ r.data # "objeto" THEN
               Sucesso(VerificarOp, 0, 0, HttpStatus.OK,
                       {[numero |-> pedido.numeros[i], verificado |-> r.data = "exists"] :
                          i \in DOMAIN pedido.numeros})
             ELSE IF r.k = "ok" THEN
               Falha(VerificarOp, 0, 0, TypeError("response.data.map is not a function"))
             ELSE Falha(VerificarOp, 0, 0, AxiosError(r))
  /\ lista' = <<>>
  /\ UNCHANGED <<store, tx, agora, esquema, conexoes, edicao, contas, reqUser>>

\* router.post('/salvar-contato') up to the call of the service
SalvarContato(b) ==
  /\ pedido.pc = "idle"
  /\ IF ~TruthyI(b.api_key) THEN
       /\ resp' = [Falha(SalvarOp, 0, 0, AppError(HttpStatus.BAD_REQUEST, "Dados invalidos"))
                   EXCEPT !.body = b]
       /\ pedido' = [SemPedido EXCEPT !.op = SalvarOp, !.respostas = 1]
     ELSE
       /\ resp' = resp
       /\ pedido' = [SemPedido EXCEPT !.pc = "select", !.op = SalvarOp,
                                      !.api_key = b.api_key.v]
  /\ lista' = <<>>
  /\ UNCHANGED <<store, tx, agora, esquema, conexoes, edicao, contas, reqUser>>

\* WhatsAppService.salvarContato: SELECT telefone FROM usuarios WHERE
\* api_key = ?.  Without a row the service throws Error('Usuario nao
\* encontrado'); the catch of the handler answers it with `throw new
\* AppError(404, ...)`, which rejects the promise of the async handler
\* instead of calling next
SalvarContatoSelect ==
  /\ pedido.pc = "select"
  /\ LET us == {u \in DOMAIN usuarios : usuarios[u].api_key = pedido.api_key} IN
     IF us = {} THEN pedido' = [pedido EXCEPT !.pc = "rejeitada"]
     ELSE pedido' = [pedido EXCEPT !.pc = "gateway",
                                   !.numeros = <<usuarios[CHOOSE u \in us : TRUE].telefone>>]
  /\ UNCHANGED <<store, tx, resp, lista, agora, esquema, conexoes, edicao, contas, reqUser>>

\* the axios.post of salvarContato and what the handler does with its outcome
SalvarContatoEnvia(r) ==
  /\ pedido.pc = "gateway" /\ pedido.op = SalvarOp
  /\ pedido' = [pedido EXCEPT !.pc = "idle", !.chamadas = @ + 1, !.respostas = @ + 1,
                              !.retorno = r]
  /\ resp' = IF r.k = "ok" THEN
               Sucesso(SalvarOp, 0, 0, HttpStatus.OK, {[numero |-> pedido.numeros[1]]})
             ELSE Falha(SalvarOp, 0, 0, AxiosError(r))
  /\ lista' = <<>>
  /\ UNCHANGED <<store, tx, agora, esquema, conexoes, edicao, contas, reqUser>>

\* the rejected promise of the handler.  The router of Express 4 does not
\* look at the promise an async handler returns: the rejection is unhandled,
\* and Node either only warns, leaving the request without an answer, or
\* ends the process.  A router that passes rejections to next (Express 5)
\* lets the error handler answer.
RejeicaoDoHandler(destino) ==
  /\ pedido.pc = "rejeitada"
  /\ IF destino = "next" THEN
       /\ resp' = Falha(SalvarOp, 0, 0,
                         AppError(HttpStatus.NOT_FOUND, "Usuario nao encontrado"))
       /\ pedido' = [pedido EXCEPT !.pc = "idle", !.respostas = @ + 1]
     ELSE
       /\ resp' = resp
       /\ pedido' = [pedido EXCEPT !.pc = destino]
  /\ lista' = <<>>
  /\ UNCHANGED <<store, tx, agora, esquema, conexoes, edicao, contas, reqUser>>

\* the connection of a request that gets no answer is closed by the client
\* or by the end of the process
SemResposta ==
  /\ pedido.pc \in {"pendente", "terminado"}
  /\ pedido' = [pedido EXCEPT !.pc = "idle"]
  /\ UNCHANGED <<store, tx, resp, lista, agora, esquema, conexoes, edicao, contas, reqUser>>

-----------------------------------------------------------------------------
(* Table lembretes and its handlers (routes/lembretes.js) *)

tiposValidos == {"Contas a Pagar", "Saude", "Normal"}
frequenciasValidas == {"Diaria", "Semanal", "Mensal", "Anual"}
diasValidos == {"Domingo", "Segunda", "Terca", "Quarta", "Quinta", "Sexta", "Sabado"}
mesesValidos == {"Janeiro", "Fevereiro", "Marco", "Abril", "Maio", "Junho", "Julho",
                 "Agosto", "Setembro", "Outubro", "Novembro", "Dezembro"}

\* the same chain with the check of the type before the required fields
ValidaCriacao_tipoPrimeiro(b) ==
  IF b.tipo \notin tiposValidos THEN "Tipo invalido"
  ELSE IF ~TruthyS(b.titulo) \/ ~TruthyS(b.tipo) THEN "Titulo e tipo sao obrigatorios"
  ELSE IF TruthyB(b.recorrente) /\ TruthyS(b.frequencia) THEN
    IF b.frequencia \notin frequenciasValidas THEN "Frequencia invalida"
    ELSE IF b.frequencia = "Mensal" THEN
      IF ~TruthyI(b.dia) \/ ~TruthyH(b.hora)
        THEN "Para lembretes mensais, dia e hora sao obrigatorios"
      ELSE IF b.dia.v < 1 \/ b.dia.v > 31 THEN "Dia deve estar entre 1 e 31"
      ELSE "ok"
    ELSE IF b.frequencia = "Semanal" THEN
      IF ~TruthyS(b.dia_semana) \/ ~TruthyH(b.hora)
        THEN "Para lembretes semanais, dia da semana e hora sao obrigatorios"
      ELSE IF b.dia_semana \notin diasValidos THEN "Dia da semana invalido"
      ELSE "ok"
    ELSE IF b.frequencia = "Anual" THEN
      IF ~TruthyI(b.dia) \/ ~TruthyS(b.mes) \/ ~TruthyH(b.hora)
        THEN "Para lembretes anuais, dia, mes e hora sao obrigatorios"
      ELSE IF b.mes \notin mesesValidos THEN "Mes invalido"
      ELSE "ok"
    ELSE "ok"
  ELSE "ok"

\* POST /lembretes: the validation chain; "ok" or the text of errors.message
\* of the first AppError(400, 'Erro de validacao', { message }) thrown
ValidaCriacao(b) ==
  IF ~TruthyS(b.titulo) \/ ~TruthyS(b.tipo) THEN "Titulo e tipo sao obrigatorios"
  ELSE IF b.tipo \notin tiposValidos THEN "Tipo invalido"
  ELSE IF TruthyB(b.recorrente) /\ TruthyS(b.frequencia) THEN
    IF b.frequencia \notin frequenciasValidas THEN "Frequencia invalida"
    ELSE IF b.frequencia = "Mensal" THEN
      IF ~TruthyI(b.dia) \/ ~TruthyH(b.hora)
        THEN "Para lembretes mensais, dia e hora sao obrigatorios"
      ELSE IF b.dia.v < 1 \/ b.dia.v > 31 THEN "Dia deve estar entre 1 e 31"
      ELSE "ok"
    ELSE IF b.frequencia = "Semanal" THEN
      IF ~TruthyS(b.dia_semana) \/ ~TruthyH(b.hora)
        THEN "Para lembretes semanais, dia da semana e hora sao obrigatorios"
      ELSE IF b.dia_semana \notin diasValidos THEN "Dia da semana invalido"
      ELSE "ok"
    ELSE IF b.frequencia = "Anual" THEN
      IF ~TruthyI(b.dia) \/ ~TruthyS(b.mes) \/ ~TruthyH(b.hora)
        THEN "Para lembretes anuais, dia, mes e hora sao obrigatorios"
      ELSE IF b.mes \notin mesesValidos THEN "Mes invalido"
      ELSE "ok"
    ELSE "ok"
  ELSE "ok"

\* PUT /lembretes/:id: the validation of the recurrence fields
ValidaAtualizacao(b) ==
  IF TruthyB(b.recorrente) /\ TruthyS(b.frequencia) THEN
    IF b.frequencia = "Mensal" THEN
      IF ~TruthyI(b.dia) \/ ~TruthyH(b.hora)
        THEN "Para lembretes mensais, dia e hora sao obrigatorios"
      ELSE "ok"
    ELSE IF b.frequencia = "Semanal" THEN
      IF ~TruthyS(b.dia_semana) \/ ~TruthyH(b.hora)
        THEN "Para lembretes semanais, dia da semana e hora sao obrigatorios"
      ELSE "ok"
    ELSE IF b.frequencia = "Anual" THEN
      IF ~TruthyI(b.dia) \/ ~TruthyS(b.mes) \/ ~TruthyH(b.hora)
        THEN "Para lembretes anuais, dia, mes e hora sao obrigatorios"
      ELSE "ok"
    ELSE "ok"
  ELSE "ok"

\* A TIME column stores hours, minutes and seconds
ColTime(h) ==
  IF h.k = "time"
    THEN [k |-> "time", v |-> <<h.v[1], h.v[2], IF Len(h.v) > 2 THEN h.v[3] ELSE 0>>]
    ELSE HNull

\* A TINYINT(1) column stores a JavaScript boolean as 1 or 0
ColBool(b) == IF b = "true" THEN Num(1) ELSE IF b = "false" THEN Num(0) ELSE Null

\* The bind values of the INSERT of POST /lembretes
ValoresCriacao(u, b) ==
  [usuario_id |-> u,
   titulo |-> OrNullS(b.titulo),
   tipo |-> OrNullS(b.tipo),
   data_hora |-> OrNullD(b.data_hora),
   recorrente |-> ColBool(IF TruthyB(b.recorrente) THEN "true" ELSE "false"),
   frequencia |-> OrNullS(b.frequencia),
   dia |-> OrNullI(b.dia),
   hora |-> ColTime(OrNullH(b.hora)),
   dia_semana |-> OrNullS(b.dia_semana),
   mes |-> OrNullS(b.mes),
   status |-> "Ativo"]

\* the same UPDATE with `status = DEFAULT` in its SET list
ValoresAtualizacao_statusPadrao(old, b) ==
  [usuario_id |-> old.usuario_id,
   titulo |-> b.titulo,
   tipo |-> b.tipo,
   data_hora |-> b.data_hora,
   recorrente |-> ColBool(b.recorrente),
   frequencia |-> b.frequencia,
   dia |-> b.dia,
   hora |-> ColTime(b.hora),
   dia_semana |-> b.dia_semana,
   mes |-> b.mes,
   status |-> "Ativo"]

\* The bind values of the UPDATE of PUT /lembretes/:id, over the row `old`
ValoresAtualizacao(old, b) ==
  [usuario_id |-> old.usuario_id,
   titulo |-> b.titulo,
   tipo |-> b.tipo,
   data_hora |-> b.data_hora,
   recorrente |-> ColBool(b.recorrente),
   frequencia |-> b.frequencia,
   dia |-> b.dia,
   hora |-> ColTime(b.hora),
   dia_semana |-> b.dia_semana,
   mes |-> b.mes,
   status |-> old.status]

\* mysql2 refuses a bind array that contains undefined
TemUndefined(b) ==
  \/ b.titulo = UNDEF \/ b.tipo = UNDEF \/ b.data_hora.k = "undef"
  \/ b.recorrente = UNDEF \/ b.frequencia = UNDEF \/ b.dia.k = "undef"
  \/ b.hora.k = "undef" \/ b.dia_semana = UNDEF \/ b.mes = UNDEF

\* the same table with dia_semana stored as sent (a text column)
DbAceitaLembrete_semDiaSemana(row) ==
  /\ row.titulo # NULL
  /\ row.tipo \in tiposValidos
  /\ row.frequencia \in frequenciasValidas \cup {NULL}
  /\ row.mes \in mesesValidos \cup {NULL}
  /\ row.usuario_id \in DOMAIN usuarios

\* CREATE TABLE lembretes (strict SQL mode): NOT NULL and ENUM columns and
\* the foreign key on usuarios
DbAceitaLembrete(row) ==
  /\ row.titulo # NULL
  /\ row.tipo \in tiposValidos
  /\ row.frequencia \in frequenciasValidas \cup {NULL}
  /\ row.dia_semana \in diasValidos \cup {NULL}
  /\ row.mes \in mesesValidos \cup {NULL}
  /\ row.usuario_id \in DOMAIN usuarios

\* the same SELECT without `AND usuario_id = ?`
LembreteDoUsuario_semDono(id, u) ==
  id \in DOMAIN lembretes

\* SELECT id FROM lembretes WHERE id = ? AND usuario_id = ?
LembreteDoUsuario(id, u) ==
  id \in DOMAIN lembretes /\ lembretes[id].usuario_id = u

\* ON DELETE CASCADE of lembretes_tags and notificacoes on lembretes
CascataLembrete(id) ==
  /\ lembretes_tags' = {lt \in lembretes_tags : lt[1] # id}
  /\ notificacoes' = Sem(notificacoes, {n \in DOMAIN notificacoes :
                                         notificacoes[n].lembrete_id = id})

\* router.post('/')
PostLembrete(u, b) ==
  /\ LET v == ValidaCriacao(b)
         row == ValoresCriacao(u, b)
         op == "POST /lembretes" IN
     IF v # "ok" THEN
       /\ resp' = [Falha(op, u, 0, AppError(HttpStatus.BAD_REQUEST, v)) EXCEPT !.body = b]
       /\ UNCHANGED store
     ELSE IF ~DbAceitaLembrete(row) THEN
       /\ resp' = [Falha(op, u, 0, AppError(HttpStatus.INTERNAL_SERVER_ERROR,
                                             "Erro ao salvar no banco de dados"))
                   EXCEPT !.body = b]
       /\ UNCHANGED store
     ELSE
       /\ lembretes' = (lembreteSeq :> row) @@ lembretes
       /\ lembreteSeq' = lembreteSeq + 1
       /\ resp' = [Sucesso(op, u, lembreteSeq, HttpStatus.CREATED, {lembreteSeq})
                   EXCEPT !.body = b]
       /\ UNCHANGED <<tags, tagSeq, lembretes_tags, notificacoes, notifSeq>>
  /\ lista' = <<>>
  /\ UNCHANGED <<tx, agora, esquema, pedido, conexoes, edicao, contas, reqUser>>

\* router.put('/:id')
PutLembrete(u, id, b) ==
  /\ LET v == ValidaAtualizacao(b)
         op == "PUT /lembretes/:id" IN
     IF ~LembreteDoUsuario(id, u) THEN
       /\ resp' = [Falha(op, u, id, AppError(HttpStatus.NOT_FOUND, "Lembrete nao encontrado"))
                   EXCEPT !.body = b]
       /\ UNCHANGED store
     ELSE IF v # "ok" THEN
       /\ resp' = [Falha(op, u, id, AppError(HttpStatus.BAD_REQUEST, v)) EXCEPT !.body = b]
       /\ UNCHANGED store
     ELSE IF TemUndefined(b) THEN
       /\ resp' = [Falha(op, u, id, TypeError("Bind parameters must not contain undefined"))
                   EXCEPT !.body = b]
       /\ UNCHANGED store
     ELSE IF ~DbAceitaLembrete(ValoresAtualizacao(lembretes[id], b)) THEN
       /\ resp' = [Falha(op, u, id, DbError("ER_TRUNCATED_OR_NULL")) EXCEPT !.body = b]
       /\ UNCHANGED store
     ELSE
       /\ lembretes' = [lembretes EXCEPT ![id] = ValoresAtualizacao(lembretes[id], b)]
       /\ resp' = [Sucesso(op, u, id, HttpStatus.OK, {}) EXCEPT !.body = b]
       /\ UNCHANGED <<lembreteSeq, tags, tagSeq, lembretes_tags, notificacoes, notifSeq>>
  /\ lista' = <<>>
  /\ UNCHANGED <<tx, agora, esquema, pedido, conexoes, edicao, contas, reqUser>>

\* Row locks of the open transaction: once it has written links of a
\* reminder, that reminder cannot be deleted before the transaction ends
LembreteLivre(id) ==
  tx.pc \in {"idle", "delete"} \/ tx.id # id

\* router.delete('/:id')
DeleteLembrete(u, id) ==
  /\ LembreteLivre(id)
  /\ LET op == "DELETE /lembretes/:id" IN
     IF ~LembreteDoUsuario(id, u) THEN
       /\ resp' = Falha(op, u, id, AppError(HttpStatus.NOT_FOUND, "Lembrete nao encontrado"))
       /\ UNCHANGED store
     ELSE
       /\ lembretes' = Sem(lembretes, {id})
       /\ CascataLembrete(id)
       /\ resp' = Sucesso(op, u, id, HttpStatus.OK, {})
       /\ UNCHANGED <<lembreteSeq, tags, tagSeq, notifSeq>>
  /\ lista' = <<>>
  /\ UNCHANGED <<tx, agora, esquema, pedido, conexoes, edicao, contas, reqUser>>

-----------------------------------------------------------------------------
(* Table tags and its handlers (routes/tags.js) *)

\* the same filter without `AND usuario_id = ?`
TagDoUsuario_semDono(id, u) ==
  id \in DOMAIN tags

\* SELECT-less ownership filter of UPDATE/DELETE ... WHERE id = ? AND usuario_id = ?
TagDoUsuario(id, u) ==
  id \in DOMAIN tags /\ tags[id].usuario_id = u

\* Row locks of the open transaction: the link rows it deleted and the tag
\* rows its inserted links reference cannot be deleted before it ends
TagLivre(id) ==
  \/ tx.pc = "idle"
  \/ /\ id \notin tx.ins
     /\ ~(tx.pc \in {"insert", "commit"} /\ <<tx.id, id>> \in lembretes_tags)

\* router.post('/')
PostTag(u, b) ==
  /\ LET op == "POST /tags"
         cor == IF b.cor = UNDEF THEN "#FFFFFF" ELSE b.cor IN
     IF ~TruthyS(b.nome) THEN
       /\ resp' = [Falha(op, u, 0, AppError(HttpStatus.BAD_REQUEST, "Nome da tag e obrigatorio"))
                   EXCEPT !.body = b]
       /\ UNCHANGED store
     ELSE IF b.icone = UNDEF THEN
       /\ resp' = [Falha(op, u, 0, TypeError("Bind parameters must not contain undefined"))
                   EXCEPT !.body = b]
       /\ UNCHANGED store
     ELSE IF u \notin DOMAIN usuarios THEN
       \* the foreign key of tags on usuarios
       /\ resp' = [Falha(op, u, 0, DbError("ER_NO_REFERENCED_ROW_2")) EXCEPT !.body = b]
       /\ UNCHANGED store
     ELSE
       /\ tags' = (tagSeq :> [usuario_id |-> u, nome |-> b.nome, cor |-> cor,
                              icone |-> b.icone]) @@ tags
       /\ tagSeq' = tagSeq + 1
       /\ resp' = [Sucesso(op, u, tagSeq, HttpStatus.CREATED, {tagSeq}) EXCEPT !.body = b]
       /\ UNCHANGED <<lembretes, lembreteSeq, lembretes_tags, notificacoes, notifSeq>>
  /\ lista' = <<>>
  /\ UNCHANGED <<tx, agora, esquema, pedido, conexoes, edicao, contas, reqUser>>

\* router.get('/')
GetTags(u) ==
  /\ resp' = Sucesso("GET /tags", u, 0, HttpStatus.OK,
                     {t \in DOMAIN tags : tags[t].usuario_id = u})
  /\ lista' = <<>>
  /\ UNCHANGED <<store, tx, agora, esquema, pedido, conexoes, edicao, contas, reqUser>>

\* router.put('/:id')
PutTag(u, id, b) ==
  /\ LET op == "PUT /tags/:id"
         old == tags[id] IN
     IF b.nome = UNDEF /\ b.cor = UNDEF /\ b.icone = UNDEF THEN
       /\ resp' = [Falha(op, u, id, AppError(HttpStatus.BAD_REQUEST,
                                              "Nenhum campo para atualizar"))
                   EXCEPT !.body = b]
       /\ UNCHANGED store
     ELSE IF ~TagDoUsuario(id, u) THEN
       /\ resp' = [Falha(op, u, id, AppError(HttpStatus.NOT_FOUND, "Tag nao encontrada"))
                   EXCEPT !.body = b]
       /\ UNCHANGED store
     ELSE IF b.nome = NULL THEN
       /\ resp' = [Falha(op, u, id, DbError("ER_BAD_NULL_ERROR")) EXCEPT !.body = b]
       /\ UNCHANGED store
     ELSE
       /\ tags' = [tags EXCEPT ![id] =
                     [usuario_id |-> old.usuario_id,
                      nome |-> IF b.nome = UNDEF THEN old.nome ELSE b.nome,
                      cor |-> IF b.cor = UNDEF THEN old.cor ELSE b.cor,
                      icone |-> IF b.icone = UNDEF THEN old.icone ELSE b.icone]]
       /\ resp' = [Sucesso(op, u, id, HttpStatus.OK, {}) EXCEPT !.body = b]
       /\ UNCHANGED <<lembretes, lembreteSeq, tagSeq, lembretes_tags, notificacoes, notifSeq>>
  /\ lista' = <<>>
  /\ UNCHANGED <<tx, agora, esquema, pedido, conexoes, edicao, contas, reqUser>>

\* router.delete('/:id'), with ON DELETE CASCADE of lembretes_tags on tags
DeleteTag(u, id) ==
  /\ TagLivre(id)
  /\ LET op == "DELETE /tags/:id" IN
     IF ~TagDoUsuario(id, u) THEN
       /\ resp' = Falha(op, u, id, AppError(HttpStatus.NOT_FOUND, "Tag nao encontrada"))
       /\ UNCHANGED store
     ELSE
       /\ tags' = Sem(tags, {id})
       /\ lembretes_tags' = {lt \in lembretes_tags : lt[2] # id}
       /\ resp' = Sucesso(op, u, id, HttpStatus.OK, {})
       /\ UNCHANGED <<lembretes, lembreteSeq, tagSeq, notificacoes, notifSeq>>
  /\ lista' = <<>>
  /\ UNCHANGED <<tx, agora, esquema, pedido, conexoes, edicao, contas, reqUser>>

\* router.get('/lembrete/:lembreteId')
GetTagsLembrete(u, id) ==
  /\ LET op == "GET /tags/lembrete/:lembreteId" IN
     IF ~LembreteDoUsuario(id, u) THEN
       resp' = Falha(op, u, id, AppError(HttpStatus.NOT_FOUND, "Lembrete nao encontrado"))
     ELSE
       resp' = Sucesso(op, u, id, HttpStatus.OK,
                       {t \in DOMAIN tags : <<id, t>> \in lembretes_tags})
  /\ lista' = <<>>
  /\ UNCHANGED <<store, tx, agora, esquema, pedido, conexoes, edicao, contas, reqUser>>

-----------------------------------------------------------------------------
(* Table lembretes_tags and POST /tags/lembrete/:lembreteId (routes/tags.js). *)
(* The handler runs on one connection inside a transaction; its statements   *)
(* are separate steps, and the table changes only when it commits.           *)

AssocOp == "POST /tags/lembrete/:lembreteId"

TxIdle == [pc |-> "idle", user |-> 0, id |-> 0, tagIds |-> <<>>, i |-> 0,
           ins |-> {}, antes |-> {}]

\* tagIds of a request body: missing, not an array, or an array of ids
TagIdsUndef == [k |-> "undef", v |-> <<>>]
TagIdsTexto == [k |-> "string", v |-> <<>>]
TagIdsArray(seq) == [k |-> "array", v |-> seq]

Elementos(seq) == {seq[i] : i \in 1..Len(seq)}

\* the tags linked to a reminder in the committed table
LinksDe(tabela, id) == {lt[2] : lt \in {x \in tabela : x[1] = id}}
TagsDoLembrete(id) == LinksDe(lembretes_tags, id)

\* the same SELECT without `AND usuario_id = ?`
TagsDoUsuario_semDono(ids, u) ==
  {t \in DOMAIN tags : t \in Elementos(ids)}

\* SELECT id FROM tags WHERE id IN (...) AND usuario_id = ?
TagsDoUsuario(ids, u) ==
  {t \in DOMAIN tags : t \in Elementos(ids) /\ tags[t].usuario_id = u}

\* the body of the request as kept with the response, with the links the
\* transaction had deleted when the response was sent
CorpoAssoc(tagIds, antes) == [tagIds |-> tagIds, antes |-> antes]

\* catch: rollback, then next(AppError) or next(AppError(500))
FalhaAssoc(u, id, tagIds, err) ==
  [Falha(AssocOp, u, id,
         IF err.name = "AppError" THEN err
         ELSE AppError(HttpStatus.INTERNAL_SERVER_ERROR,
                       "Erro ao associar tags ao lembrete"))
   EXCEPT !.body = CorpoAssoc(tagIds, tx.antes)]

\* the same handler with the SELECT of the reminder before the check of tagIds
AssociarInicio_lembretePrimeiro(u, id, tagIds) ==
  /\ tx.pc = "idle"
  /\ IF ~LembreteDoUsuario(id, u) THEN
       /\ resp' = FalhaAssoc(u, id, tagIds,
                    AppError(HttpStatus.NOT_FOUND, "Lembrete nao encontrado"))
       /\ tx' = tx
     ELSE IF tagIds.k # "array" \/ Len(tagIds.v) = 0 THEN
       /\ resp' = FalhaAssoc(u, id, tagIds,
                    AppError(HttpStatus.BAD_REQUEST, "Lista de IDs de tags e obrigatoria"))
       /\ tx' = tx
     ELSE IF Cardinality(TagsDoUsuario(tagIds.v, u)) # Len(tagIds.v) THEN
       /\ resp' = FalhaAssoc(u, id, tagIds,
                    AppError(HttpStatus.BAD_REQUEST,
                             "Uma ou mais tags nao encontradas ou nao pertencem ao usuario"))
       /\ tx' = tx
     ELSE
       /\ tx' = [pc |-> "delete", user |-> u, id |-> id, tagIds |-> tagIds.v,
                 i |-> 1, ins |-> {}, antes |-> {}]
       /\ resp' = NoResp
  /\ lista' = <<>>
  /\ UNCHANGED <<store, agora, esquema, pedido, conexoes, edicao, contas, reqUser>>

\* the same handler checking each tag of the list instead of the row count
AssociarInicio_porTag(u, id, tagIds) ==
  /\ tx.pc = "idle"
  /\ IF tagIds.k # "array" \/ Len(tagIds.v) = 0 THEN
       /\ resp' = FalhaAssoc(u, id, tagIds,
                    AppError(HttpStatus.BAD_REQUEST, "Lista de IDs de tags e obrigatoria"))
       /\ tx' = tx
     ELSE IF ~LembreteDoUsuario(id, u) THEN
       /\ resp' = FalhaAssoc(u, id, tagIds,
                    AppError(HttpStatus.NOT_FOUND, "Lembrete nao encontrado"))
       /\ tx' = tx
     ELSE IF TagsDoUsuario(tagIds.v, u) # Elementos(tagIds.v) THEN
       /\ resp' = FalhaAssoc(u, id, tagIds,
                    AppError(HttpStatus.BAD_REQUEST,
                             "Uma ou mais tags nao encontradas ou nao pertencem ao usuario"))
       /\ tx' = tx
     ELSE
       /\ tx' = [pc |-> "delete", user |-> u, id |-> id, tagIds |-> tagIds.v,
                 i |-> 1, ins |-> {}, antes |-> {}]
       /\ resp' = NoResp
  /\ lista' = <<>>
  /\ UNCHANGED <<store, agora, esquema, pedido, conexoes, edicao, contas, reqUser>>

\* getConnection, beginTransaction, the check of tagIds and the two SELECTs
AssociarInicio(u, id, tagIds) ==
  /\ tx.pc = "idle"
  /\ IF tagIds.k # "array" \/ Len(tagIds.v) = 0 THEN
       /\ resp' = FalhaAssoc(u, id, tagIds,
                    AppError(HttpStatus.BAD_REQUEST, "Lista de IDs de tags e obrigatoria"))
       /\ tx' = tx
     ELSE IF ~LembreteDoUsuario(id, u) THEN
       /\ resp' = FalhaAssoc(u, id, tagIds,
                    AppError(HttpStatus.NOT_FOUND, "Lembrete nao encontrado"))
       /\ tx' = tx
     ELSE IF Cardinality(TagsDoUsuario(tagIds.v, u)) # Len(tagIds.v) THEN
       /\ resp' = FalhaAssoc(u, id, tagIds,
                    AppError(HttpStatus.BAD_REQUEST,
                             "Uma ou mais tags nao encontradas ou nao pertencem ao usuario"))
       /\ tx' = tx
     ELSE
       /\ tx' = [pc |-> "delete", user |-> u, id |-> id, tagIds |-> tagIds.v,
                 i |-> 1, ins |-> {}, antes |-> {}]
       /\ resp' = NoResp
  /\ lista' = <<>>
  /\ UNCHANGED <<store, agora, esquema, pedido, conexoes, edicao, contas, reqUser>>

\* the same DELETE issued on the pool, outside the transaction
AssociarDelete_autocommit ==
  /\ tx.pc = "delete"
  /\ tx' = [tx EXCEPT !.pc = "insert", !.antes = TagsDoLembrete(tx.id)]
  /\ lembretes_tags' = {lt \in lembretes_tags : lt[1] # tx.id}
  /\ UNCHANGED <<lembretes, lembreteSeq, tags, tagSeq, notificacoes, notifSeq,
                 resp, lista, agora, esquema, pedido, conexoes, edicao, contas, reqUser>>

\* DELETE FROM lembretes_tags WHERE lembrete_id = ?  (uncommitted)
AssociarDelete ==
  /\ tx.pc = "delete"
  /\ tx' = [tx EXCEPT !.pc = "insert", !.antes = TagsDoLembrete(tx.id)]
  /\ UNCHANGED <<store, resp, lista, agora, esquema, pedido, conexoes, edicao, contas, reqUser>>

\* INSERT INTO lembretes_tags (lembrete_id, tag_id) VALUES (?, ?) for the next
\* tagId: the foreign keys and the primary key are checked by the table
AssociarInsert ==
  /\ tx.pc = "insert"
  /\ LET t == tx.tagIds[tx.i] IN
     IF tx.id \notin DOMAIN lembretes \/ t \notin DOMAIN tags THEN
       /\ resp' = FalhaAssoc(tx.user, tx.id, TagIdsArray(tx.tagIds),
                             DbError("ER_NO_REFERENCED_ROW_2"))
       /\ tx' = TxIdle
     ELSE IF t \in tx.ins THEN
       /\ resp' = FalhaAssoc(tx.user, tx.id, TagIdsArray(tx.tagIds), DbError("ER_DUP_ENTRY"))
       /\ tx' = TxIdle
     ELSE
       /\ tx' = [tx EXCEPT !.ins = @ \cup {t}, !.i = @ + 1,
                           !.pc = IF tx.i = Len(tx.tagIds) THEN "commit" ELSE "insert"]
       /\ resp' = resp
  /\ UNCHANGED <<store, lista, agora, esquema, pedido, conexoes, edicao, contas, reqUser>>

\* a commit of the INSERTs without the DELETE
AssociarCommit_semDelete ==
  /\ tx.pc = "commit"
  /\ lembretes_tags' = lembretes_tags \cup {<<tx.id, t>> : t \in tx.ins}
  /\ resp' = [Sucesso(AssocOp, tx.user, tx.id, HttpStatus.OK, {})
              EXCEPT !.body = CorpoAssoc(TagIdsArray(tx.tagIds), tx.antes)]
  /\ tx' = TxIdle
  /\ UNCHANGED <<lembretes, lembreteSeq, tags, tagSeq, notificacoes, notifSeq,
                 lista, agora, esquema, pedido, conexoes, edicao, contas, reqUser>>

\* connection.commit() and the 200 response
AssociarCommit ==
  /\ tx.pc = "commit"
  /\ lembretes_tags' = {lt \in lembretes_tags : lt[1] # tx.id}
                         \cup {<<tx.id, t>> : t \in tx.ins}
  /\ resp' = [Sucesso(AssocOp, tx.user, tx.id, HttpStatus.OK, {})
              EXCEPT !.body = CorpoAssoc(TagIdsArray(tx.tagIds), tx.antes)]
  /\ tx' = TxIdle
  /\ UNCHANGED <<lembretes, lembreteSeq, tags, tagSeq, notificacoes, notifSeq,
                 lista, agora, esquema, pedido, conexoes, edicao, contas, reqUser>>

\* a statement of the open transaction is rejected by the server (lock wait
\* timeout, deadlock, lost connection): catch, rollback, 500
AssociarErro ==
  /\ tx.pc \in {"delete", "insert"}
  /\ resp' = FalhaAssoc(tx.user, tx.id, TagIdsArray(tx.tagIds), DbError("ER_LOCK_WAIT_TIMEOUT"))
  /\ tx' = TxIdle
  /\ UNCHANGED <<store, lista, agora, esquema, pedido, conexoes, edicao, contas, reqUser>>

\* the process stops with the transaction open: the server rolls the
\* transaction back when the connection closes, and no response is sent
AssociarCrash ==
  /\ tx.pc # "idle"
  /\ resp' = [NoResp EXCEPT !.op = AssocOp, !.user = tx.user, !.id = tx.id,
                            !.msg = "connection closed",
                            !.body = CorpoAssoc(TagIdsArray(tx.tagIds), tx.antes)]
  /\ tx' = TxIdle
  /\ UNCHANGED <<store, lista, agora, esquema, pedido, conexoes, edicao, contas, reqUser>>

-----------------------------------------------------------------------------
(* Table notificacoes, its trigger and its handlers (routes/notificacoes.js) *)

tiposEnvio == {"WhatsApp", "SMS"}

\* SELECT n.* FROM notificacoes n INNER JOIN lembretes l ON n.lembrete_id = l.id
\* WHERE n.id = ? AND l.usuario_id = ?
NotificacaoDoUsuario(id, u) ==
  /\ id \in DOMAIN notificacoes
  /\ LembreteDoUsuario(notificacoes[id].lembrete_id, u)

\* The two scripts of src/sql create the same tables; banco_completo.sql
\* creates the trigger as well, banco_corrigido.sql creates none.
Esquemas == {"banco_completo", "banco_corrigido"}

\* CREATE TRIGGER trg_after_notificacao_insert AFTER INSERT ON notificacoes:
\* the table lembretes after the row `nova` was inserted
trg_after_notificacao_insert(nova) ==
  IF esquema = "banco_completo" /\ nova.status = "Sucesso"
    THEN [l \in DOMAIN lembretes |->
            IF l = nova.lembrete_id THEN [lembretes[l] EXCEPT !.status = "Concluido"]
            ELSE lembretes[l]]
    ELSE lembretes

\* INSERT INTO notificacoes (...) of a row the table accepts, trigger included
InsereNotificacao(nova) ==
  /\ notificacoes' = (notifSeq :> nova) @@ notificacoes
  /\ notifSeq' = notifSeq + 1
  /\ lembretes' = trg_after_notificacao_insert(nova)
  /\ UNCHANGED <<lembreteSeq, tags, tagSeq, lembretes_tags>>

\* router.post('/'); the INSERT names no status, the column default applies
PostNotificacao(u, b) ==
  /\ LET op == "POST /notificacoes"
         nova == [lembrete_id |-> b.lembrete_id.v, tipo_envio |-> b.tipo_envio,
                  data_envio |-> b.data_envio, status |-> "Sucesso",
                  mensagem |-> b.mensagem] IN
     IF ~TruthyI(b.lembrete_id) \/ ~TruthyS(b.tipo_envio) \/ ~TruthyS(b.data_envio) THEN
       /\ resp' = [Falha(op, u, 0, AppError(HttpStatus.BAD_REQUEST,
                     "ID do lembrete, tipo de envio e data de envio sao obrigatorios"))
                   EXCEPT !.body = b]
       /\ UNCHANGED store
     ELSE IF ~LembreteDoUsuario(b.lembrete_id.v, u) THEN
       /\ resp' = [Falha(op, u, 0, AppError(HttpStatus.NOT_FOUND, "Lembrete nao encontrado"))
                   EXCEPT !.body = b]
       /\ UNCHANGED store
     ELSE IF b.mensagem = UNDEF THEN
       /\ resp' = [Falha(op, u, 0, TypeError("Bind parameters must not contain undefined"))
                   EXCEPT !.body = b]
       /\ UNCHANGED store
     ELSE IF b.tipo_envio \notin tiposEnvio THEN
       /\ resp' = [Falha(op, u, 0, DbError("WARN_DATA_TRUNCATED")) EXCEPT !.body = b]
       /\ UNCHANGED store
     ELSE
       /\ InsereNotificacao(nova)
       /\ resp' = [Sucesso(op, u, notifSeq, HttpStatus.CREATED, {notifSeq}) EXCEPT !.body = b]
  /\ lista' = <<>>
  /\ UNCHANGED <<tx, agora, esquema, pedido, conexoes, edicao, contas, reqUser>>

\* router.get('/lembrete/:lembreteId')
GetNotificacoesLembrete(u, id) ==
  /\ LET op == "GET /notificacoes/lembrete/:lembreteId" IN
     IF ~LembreteDoUsuario(id, u) THEN
       resp' = Falha(op, u, id, AppError(HttpStatus.NOT_FOUND, "Lembrete nao encontrado"))
     ELSE
       resp' = Sucesso(op, u, id, HttpStatus.OK,
                       {n \in DOMAIN notificacoes :
                          /\ notificacoes[n].lembrete_id = id
                          /\ LembreteDoUsuario(notificacoes[n].lembrete_id, u)})
  /\ lista' = <<>>
  /\ UNCHANGED <<store, tx, agora, esquema, pedido, conexoes, edicao, contas, reqUser>>

\* router.put('/:id')
PutNotificacao(u, id, b) ==
  /\ LET op == "PUT /notificacoes/:id"
         old == notificacoes[id] IN
     IF ~NotificacaoDoUsuario(id, u) THEN
       /\ resp' = [Falha(op, u, id, AppError(HttpStatus.NOT_FOUND, "Notificacao nao encontrada"))
                   EXCEPT !.body = b]
       /\ UNCHANGED store
     ELSE IF b.tipo_envio = UNDEF /\ b.data_envio = UNDEF /\ b.mensagem = UNDEF THEN
       /\ resp' = [Falha(op, u, id, AppError(HttpStatus.BAD_REQUEST,
                                              "Nenhum campo para atualizar"))
                   EXCEPT !.body = b]
       /\ UNCHANGED store
     ELSE IF b.tipo_envio \notin tiposEnvio \cup {UNDEF} \/ b.data_envio = NULL THEN
       /\ resp' = [Falha(op, u, id, DbError("ER_TRUNCATED_OR_NULL")) EXCEPT !.body = b]
       /\ UNCHANGED store
     ELSE
       /\ notificacoes' = [notificacoes EXCEPT ![id] =
            [lembrete_id |-> old.lembrete_id,
             tipo_envio |-> IF b.tipo_envio = UNDEF THEN old.tipo_envio ELSE b.tipo_envio,
             data_envio |-> IF b.data_envio = UNDEF THEN old.data_envio ELSE b.data_envio,
             status |-> old.status,
             mensagem |-> IF b.mensagem = UNDEF THEN old.mensagem ELSE b.mensagem]]
       /\ resp' = [Sucesso(op, u, id, HttpStatus.OK, {}) EXCEPT !.body = b]
       /\ UNCHANGED <<lembretes, lembreteSeq, tags, tagSeq, lembretes_tags, notifSeq>>
  /\ lista' = <<>>
  /\ UNCHANGED <<tx, agora, esquema, pedido, conexoes, edicao, contas, reqUser>>

\* router.delete('/:id')
DeleteNotificacao(u, id) ==
  /\ LET op == "DELETE /notificacoes/:id" IN
     IF ~NotificacaoDoUsuario(id, u) THEN
       /\ resp' = Falha(op, u, id, AppError(HttpStatus.NOT_FOUND, "Notificacao nao encontrada"))
       /\ UNCHANGED store
     ELSE
       /\ notificacoes' = Sem(notificacoes, {id})
       /\ resp' = Sucesso(op, u, id, HttpStatus.OK, {})
       /\ UNCHANGED <<lembretes, lembreteSeq, tags, tagSeq, lembretes_tags, notifSeq>>
  /\ lista' = <<>>
  /\ UNCHANGED <<tx, agora, esquema, pedido, conexoes, edicao, contas, reqUser>>

-----------------------------------------------------------------------------
(* The foreign keys on usuarios (sql/banco_corrigido.sql, banco_completo.sql) *)

\* the same DELETE with the foreign keys of lembretes_tags not cascading
SqlDeleteUsuario_semCascataLinks(u) ==
  LET ls == {l \in DOMAIN lembretes : lembretes[l].usuario_id = u}
      ts == {t \in DOMAIN tags : tags[t].usuario_id = u} IN
  /\ u \in DOMAIN usuarios
  /\ \A l \in ls : LembreteLivre(l)
  /\ \A t \in ts : TagLivre(t)
  /\ usuarios' = Sem(usuarios, {u})
  /\ lembretes' = Sem(lembretes, ls)
  /\ tags' = Sem(tags, ts)
  /\ lembretes_tags' = lembretes_tags
  /\ notificacoes' = Sem(notificacoes, {n \in DOMAIN notificacoes :
                                         notificacoes[n].lembrete_id \in ls})
  /\ UNCHANGED <<lembreteSeq, tagSeq, notifSeq, usuarioSeq, chaveSeq, registros>>
  /\ UNCHANGED <<tx, resp, lista, agora, esquema, pedido, conexoes, edicao, reqUser>>

\* DELETE FROM usuarios WHERE id = u, run on the database: ON DELETE CASCADE
\* removes the reminders and the tags of the user, and with them their
\* links and notifications; rows locked by the open transaction make it wait
SqlDeleteUsuario(u) ==
  LET ls == {l \in DOMAIN lembretes : lembretes[l].usuario_id = u}
      ts == {t \in DOMAIN tags : tags[t].usuario_id = u} IN
  /\ u \in DOMAIN usuarios
  /\ \A l \in ls : LembreteLivre(l)
  /\ \A t \in ts : TagLivre(t)
  /\ usuarios' = Sem(usuarios, {u})
  /\ lembretes' = Sem(lembretes, ls)
  /\ tags' = Sem(tags, ts)
  /\ lembretes_tags' = {lt \in lembretes_tags : lt[1] \notin ls /\ lt[2] \notin ts}
  /\ notificacoes' = Sem(notificacoes, {n \in DOMAIN notificacoes :
                                         notificacoes[n].lembrete_id \in ls})
  /\ UNCHANGED <<lembreteSeq, tagSeq, notifSeq, usuarioSeq, chaveSeq, registros>>
  /\ UNCHANGED <<tx, resp, lista, agora, esquema, pedido, conexoes, edicao, reqUser>>

-----------------------------------------------------------------------------
(* GET /lembretes and the next-occurrence computation (routes/lembretes.js). *)
(* A Date is the number of seconds since 00:00:00 of day 0 of the model,     *)
(* which is a Sunday; the server clock and the DATETIME columns share one    *)
(* zone without daylight saving.                                             *)

SegPorDia == 24 * 60 * 60

\* Date.prototype.getDay: 0 is Sunday
getDay(d) == (d \div SegPorDia) % 7

\* Date.prototype.setHours(h, m, 0, 0)
setHours(d, h, m) == (d \div SegPorDia) * SegPorDia + h * 3600 + m * 60

\* Date.prototype.setDate(getDate() + n)
addDays(d, n) == d + n * SegPorDia

\* The calendar: day 0 is Sunday, 1 January of AnoBase; months are numbered
\* from 0 as Date numbers them
AnoBase == 2023

Bissexto(y) == (y % 4 = 0 /\ y % 100 # 0) \/ y % 400 = 0

DiasNoMes(y, m) ==
  IF m = 1 THEN (IF Bissexto(y) THEN 29 ELSE 28)
  ELSE IF m \in {3, 5, 8, 10} THEN 30 ELSE 31

DiasNoAno(y) == IF Bissexto(y) THEN 366 ELSE 365

\* the days of the years AnoBase..y-1
RECURSIVE DiasAntesDoAno(_)
DiasAntesDoAno(y) == IF y <= AnoBase THEN 0 ELSE DiasAntesDoAno(y - 1) + DiasNoAno(y - 1)

\* the days of the months 0..m-1 of year y
RECURSIVE DiasAntesDoMes(_, _)
DiasAntesDoMes(y, m) == IF m = 0 THEN 0 ELSE DiasAntesDoMes(y, m - 1) + DiasNoMes(y, m - 1)

\* new Date(y, m, d): midnight of that date; a month beyond 11 and a day
\* beyond the end of the month carry over as Date carries them
NovaData(y, m, d) ==
  (DiasAntesDoAno(y + (m \div 12)) + DiasAntesDoMes(y + (m \div 12), m % 12) + d - 1)
    * SegPorDia

\* year, month and day of month of the day number n, searched from (y, m)
RECURSIVE DataDe(_, _, _)
DataDe(n, y, m) ==
  IF n < DiasNoMes(y, m) THEN [ano |-> y, mes |-> m, dia |-> n + 1]
  ELSE IF m = 11 THEN DataDe(n - DiasNoMes(y, m), y + 1, 0)
  ELSE DataDe(n - DiasNoMes(y, m), y, m + 1)

getFullYear(d) == DataDe(d \div SegPorDia, AnoBase, 0).ano
getMonth(d) == DataDe(d \div SegPorDia, AnoBase, 0).mes
getDate(d) == DataDe(d \div SegPorDia, AnoBase, 0).dia

\* the same with the month taken modulo 12 in the same year
setMonth_semVirada(d, m) == NovaData(getFullYear(d), m % 12, getDate(d)) + (d % SegPorDia)

\* Date.prototype.setMonth(m): the same day of month and time of day
setMonth(d, m) == NovaData(getFullYear(d), m, getDate(d)) + (d % SegPorDia)

\* Date.prototype.setFullYear(y)
setFullYear(d, y) == NovaData(y, getMonth(d), getDate(d)) + (d % SegPorDia)

\* Date.prototype.toISOString: the day number and the time of day
toISOString(d) ==
  [k |-> "iso", dia |-> d \div SegPorDia, hh |-> (d % SegPorDia) \div 3600,
   mm |-> (d % 3600) \div 60, ss |-> d % 60]

IsoNull == [k |-> "null", dia |-> 0, hh |-> 0, mm |-> 0, ss |-> 0]
IsoLoop == [k |-> "loop", dia |-> 0, hh |-> 0, mm |-> 0, ss |-> 0]

\* the same table numbered from Segunda
diasSemana_desdeSegunda(nome) ==
  CASE nome = "Segunda" -> 0
    [] nome = "Terca" -> 1
    [] nome = "Quarta" -> 2
    [] nome = "Quinta" -> 3
    [] nome = "Sexta" -> 4
    [] nome = "Sabado" -> 5
    [] nome = "Domingo" -> 6
    [] OTHER -> -1

\* const diasSemana = {...}; a missing key reads as undefined (-1 here)
diasSemana(nome) ==
  CASE nome = "Domingo" -> 0
    [] nome = "Segunda" -> 1
    [] nome = "Terca" -> 2
    [] nome = "Quarta" -> 3
    [] nome = "Quinta" -> 4
    [] nome = "Sexta" -> 5
    [] nome = "Sabado" -> 6
    [] OTHER -> -1

\* the same loop as do { setDate(getDate() + 1) } while (getDay() !== alvo)
RECURSIVE AvancaAteDia_aoMenosUm(_, _, _)
AvancaAteDia_aoMenosUm(d, alvo, n) ==
  IF n > 0 /\ getDay(d) = alvo THEN [fim |-> TRUE, d |-> d, n |-> n]
  ELSE IF n >= 7 THEN [fim |-> FALSE, d |-> d, n |-> n]
  ELSE AvancaAteDia_aoMenosUm(addDays(d, 1), alvo, n + 1)

\* while (proximaExecucao.getDay() !== alvo) setDate(getDate() + 1);
\* n counts the iterations; a loop that has gone round the week never ends
RECURSIVE AvancaAteDia(_, _, _)
AvancaAteDia(d, alvo, n) ==
  IF getDay(d) = alvo THEN [fim |-> TRUE, d |-> d, n |-> n]
  ELSE IF n >= 7 THEN [fim |-> FALSE, d |-> d, n |-> n]
  ELSE AvancaAteDia(addDays(d, 1), alvo, n + 1)

\* const meses = {...}; a missing key reads as undefined (-1 here)
meses(nome) ==
  CASE nome = "Janeiro" -> 0
    [] nome = "Fevereiro" -> 1
    [] nome = "Marco" -> 2
    [] nome = "Abril" -> 3
    [] nome = "Maio" -> 4
    [] nome = "Junho" -> 5
    [] nome = "Julho" -> 6
    [] nome = "Agosto" -> 7
    [] nome = "Setembro" -> 8
    [] nome = "Outubro" -> 9
    [] nome = "Novembro" -> 10
    [] nome = "Dezembro" -> 11
    [] OTHER -> -1

\* new Date(NaN): toISOString throws RangeError
IsoInvalida == [k |-> "invalid", dia |-> 0, hh |-> 0, mm |-> 0, ss |-> 0]

\* switch (lembrete.frequencia) of a row with a time of day, read at `hoje`
porFrequencia(lembrete, hoje) ==
  LET horaMinuto == lembrete.hora.v
      p == setHours(hoje, horaMinuto[1], horaMinuto[2]) IN
  CASE lembrete.frequencia = "Diaria" ->
         toISOString(IF p < hoje THEN addDays(p, 1) ELSE p)
    [] lembrete.frequencia = "Semanal" ->
         LET r == AvancaAteDia(p, diasSemana(lembrete.dia_semana), 0) IN
         IF r.fim THEN toISOString(r.d) ELSE IsoLoop
    [] lembrete.frequencia = "Mensal" ->
         \* new Date(y, m, null) is new Date(y, m, 0)
         LET dia == IF lembrete.dia.k = "int" THEN lembrete.dia.v ELSE 0
             q == setHours(NovaData(getFullYear(hoje), getMonth(hoje), dia),
                           horaMinuto[1], horaMinuto[2]) IN
         toISOString(IF q < hoje THEN setMonth(q, getMonth(q) + 1) ELSE q)
    [] lembrete.frequencia = "Anual" ->
         IF meses(lembrete.mes) = -1 THEN IsoInvalida
         ELSE
           LET dia == IF lembrete.dia.k = "int" THEN lembrete.dia.v ELSE 0
               q == setHours(NovaData(getFullYear(hoje), meses(lembrete.mes), dia),
                             horaMinuto[1], horaMinuto[2]) IN
           toISOString(IF q < hoje THEN setFullYear(q, getFullYear(q) + 1) ELSE q)
    [] OTHER -> IsoNull

\* the same body with `if (lembrete.hora)` for `if (lembrete.recorrente && lembrete.hora)`
proximaExecucao_semRecorrente(lembrete, hoje) ==
  IF TruthyH(lembrete.hora) THEN porFrequencia(lembrete, hoje)
  ELSE IF TruthyD(lembrete.data_hora) THEN toISOString(lembrete.data_hora.v)
  ELSE IsoNull

\* the body of lembretes.map(...): proxima_execucao of one row read at `hoje`
proximaExecucao(lembrete, hoje) ==
  IF TruthyI(lembrete.recorrente) /\ TruthyH(lembrete.hora) THEN porFrequencia(lembrete, hoje)
  ELSE IF TruthyD(lembrete.data_hora) THEN toISOString(lembrete.data_hora.v)
  ELSE IsoNull

\* the same SELECT without `usuario_id = ?`
LembretesDoUsuario_todos(u, tipo, status) ==
  {l \in DOMAIN lembretes :
     /\ (TruthyS(tipo) => lembretes[l].tipo = tipo)
     /\ (TruthyS(status) => lembretes[l].status = status)}

\* SELECT * FROM lembretes WHERE usuario_id = ? [AND tipo = ?] [AND status = ?]
LembretesDoUsuario(u, tipo, status) ==
  {l \in DOMAIN lembretes :
     /\ lembretes[l].usuario_id = u
     /\ (TruthyS(tipo) => lembretes[l].tipo = tipo)
     /\ (TruthyS(status) => lembretes[l].status = status)}

\* router.get('/')
GetLembretes(u, tipo, status) ==
  /\ LET ids == LembretesDoUsuario(u, tipo, status)
         procs == [l \in ids |-> proximaExecucao(lembretes[l], agora)] IN
     IF \E l \in ids : procs[l].k = "loop" THEN
       \* the while loop never ends: no response is sent
       /\ resp' = [NoResp EXCEPT !.op = "GET /lembretes", !.user = u, !.msg = "no response"]
       /\ lista' = <<>>
     ELSE IF \E l \in ids : procs[l].k = "invalid" THEN
       /\ resp' = Falha("GET /lembretes", u, 0, TypeError("Invalid time value"))
       /\ lista' = <<>>
     ELSE
       /\ resp' = Sucesso("GET /lembretes", u, 0, HttpStatus.OK, ids)
       /\ lista' = procs
  /\ UNCHANGED <<store, tx, agora, esquema, pedido, conexoes, edicao, contas, reqUser>>

\* time passes
Tick(t) ==
  /\ t > agora
  /\ agora' = t
  /\ UNCHANGED <<esquema, pedido, conexoes, edicao, contas, reqUser>>
  /\ UNCHANGED <<store, tx, resp, lista>>

-----------------------------------------------------------------------------
(* Inputs of the requests *)

\* a body that POST and PUT /lembretes both accept: a plain to-do
Corpo(titulo) ==
  [titulo |-> titulo, tipo |-> "Normal", data_hora |-> Null, recorrente |-> "false",
   frequencia |-> NULL, dia |-> Null, hora |-> HNull, dia_semana |-> NULL, mes |-> NULL]

CorpoTag(nome, cor, icone) == [nome |-> nome, cor |-> cor, icone |-> icone]

CorposTag == {CorpoTag("n1", UNDEF, NULL), CorpoTag("n2", UNDEF, UNDEF),
              CorpoTag(UNDEF, UNDEF, UNDEF)}

CorpoNotif(l, tipo, data, msg) ==
  [lembrete_id |-> l, tipo_envio |-> tipo, data_envio |-> data, mensagem |-> msg]

CorposNotif(max) ==
  {CorpoNotif(Num(l), "WhatsApp", "d1", "m1") : l \in 1..max}
    \cup {CorpoNotif(Num(1), UNDEF, "d1", "m1"), CorpoNotif(Num(1), "SMS", "d1", UNDEF)}

CorposNotifPut ==
  {[tipo_envio |-> "SMS", data_envio |-> UNDEF, mensagem |-> UNDEF],
   [tipo_envio |-> UNDEF, data_envio |-> UNDEF, mensagem |-> UNDEF]}

RECURSIVE SeqsAte(_, _)
SeqsAte(S, n) ==
  IF n = 0 THEN {<<>>}
  ELSE LET menores == SeqsAte(S, n - 1) IN
       menores \cup {Append(q, x) : q \in {m \in menores : Len(m) = n - 1}, x \in S}

\* the tagIds of a request: arrays of at most MaxTagIds ids of 1..max (the
\* ids the table has handed out or will), a missing value, a string
ListasTagIds(max) ==
  {TagIdsArray(q) : q \in SeqsAte(1..max, MaxTagIds)} \cup {TagIdsUndef, TagIdsTexto}

-----------------------------------------------------------------------------
(* The API as a whole: every handler, on a populated database.  Requests  *)
(* are served one after another, each response delivered before the next   *)
(* request starts; the statements of the association transaction are steps  *)
(* of their own.                                                            *)

Init ==
  /\ esquema \in Esquemas
  /\ lembretes = <<>>
  /\ lembreteSeq = 1
  /\ tags = <<>>
  /\ tagSeq = 1
  /\ lembretes_tags = {}
  /\ notificacoes = <<>>
  /\ notifSeq = 1
  /\ tx = TxIdle
  /\ resp = NoResp
  /\ lista = <<>>
  /\ agora = 0
  /\ ContasIniciais

\* User 2 has created a reminder and a tag, has associated them and has
\* logged a notification of the reminder (POST /lembretes, POST /tags,
\* POST /tags/lembrete/1, POST /notificacoes)
InitPovoado ==
  /\ esquema \in Esquemas
  /\ lembretes = (1 :> [ValoresCriacao(2, Corpo("T")) EXCEPT
                          !.status = IF esquema = "banco_completo"
                                       THEN "Concluido" ELSE "Ativo"])
  /\ lembreteSeq = 2
  /\ tags = (1 :> [usuario_id |-> 2, nome |-> "n1", cor |-> "#FFFFFF", icone |-> NULL])
  /\ tagSeq = 2
  /\ lembretes_tags = {<<1, 1>>}
  /\ notificacoes = (1 :> [lembrete_id |-> 1, tipo_envio |-> "WhatsApp",
                            data_envio |-> "d1", status |-> "Sucesso", mensagem |-> "m1"])
  /\ notifSeq = 2
  /\ tx = TxIdle
  /\ resp = NoResp
  /\ lista = <<>>
  /\ agora = 0
  /\ ContasIniciais

\* the response reaches the client
Entrega ==
  /\ resp.op # "none"
  /\ resp' = NoResp
  /\ lista' = <<>>
  /\ reqUser' = SemSessao
  /\ UNCHANGED <<store, tx, agora, esquema, pedido, conexoes, edicao, contas>>

\* no response is waiting to be delivered and no transaction is open
Livre == resp.op = "none" /\ tx.pc = "idle"

Next ==
  \/ \E u \in Clientes, b \in {Corpo("T"), Corpo(UNDEF)} :
       Livre /\ lembreteSeq <= MaxLembretes /\ PostLembrete(u, b)
  \/ \E u \in Clientes, id \in 1..MaxLembretes, b \in {Corpo("T2"), Corpo(UNDEF)} :
       Livre /\ PutLembrete(u, id, b)
  \/ \E u \in Clientes, id \in 1..MaxLembretes : Livre /\ DeleteLembrete(u, id)
  \/ \E u \in Clientes, st \in {UNDEF, "Ativo"} : Livre /\ GetLembretes(u, UNDEF, st)
  \/ \E u \in Clientes, b \in CorposTag : Livre /\ tagSeq <= MaxTags /\ PostTag(u, b)
  \/ \E u \in Clientes, id \in 1..MaxTags, b \in CorposTag : Livre /\ PutTag(u, id, b)
  \/ \E u \in Clientes, id \in 1..MaxTags : Livre /\ DeleteTag(u, id)
  \/ \E u \in Clientes : Livre /\ GetTags(u)
  \/ \E u \in Clientes, id \in 1..MaxLembretes : Livre /\ GetTagsLembrete(u, id)
  \/ \E u \in Clientes, b \in CorposNotif(MaxLembretes) :
       Livre /\ notifSeq <= MaxNotificacoes /\ PostNotificacao(u, b)
  \/ \E u \in Clientes, id \in 1..MaxLembretes : Livre /\ GetNotificacoesLembrete(u, id)
  \/ \E u \in Clientes, id \in 1..MaxNotificacoes, b \in CorposNotifPut :
       Livre /\ PutNotificacao(u, id, b)
  \/ \E u \in Clientes, id \in 1..MaxNotificacoes : Livre /\ DeleteNotificacao(u, id)
  \/ \E u \in Clientes, id \in 1..MaxLembretes,
          l \in {TagIdsArray(<<t>>) : t \in 1..MaxTags} \cup {TagIdsUndef} :
       Livre /\ AssociarInicio(u, id, l)
  \/ resp.op = "none" /\ AssociarDelete
  \/ resp.op = "none" /\ AssociarInsert
  \/ resp.op = "none" /\ AssociarCommit
  \/ resp.op = "none" /\ AssociarErro
  \/ resp.op = "none" /\ AssociarCrash
  \/ Entrega

Spec == InitPovoado /\ [][Next]_vars

-----------------------------------------------------------------------------
(* The tag associations, on a database where user 1 has two reminders and  *)
(* three tags and user 2 has one tag, with tags and reminders deleted by      *)
(* other requests while the transaction is open                             *)

\* User 1 has created reminders 1 and 2 and tags 1, 2 and 3, user 2 has created
\* tag 4, and both reminders of user 1 are linked to tag 1 (POST /lembretes,
\* POST /tags, POST /tags/lembrete/:lembreteId)
InitAssoc ==
  /\ esquema = "banco_corrigido"
  /\ lembretes = (1 :> ValoresCriacao(1, Corpo("T")) @@ 2 :> ValoresCriacao(1, Corpo("T")))
  /\ lembreteSeq = 3
  /\ tags = (1 :> [usuario_id |-> 1, nome |-> "n1", cor |-> "#FFFFFF", icone |-> NULL]
              @@ 2 :> [usuario_id |-> 1, nome |-> "n1", cor |-> "#FFFFFF", icone |-> NULL]
              @@ 3 :> [usuario_id |-> 1, nome |-> "n1", cor |-> "#FFFFFF", icone |-> NULL]
              @@ 4 :> [usuario_id |-> 2, nome |-> "n1", cor |-> "#FFFFFF", icone |-> NULL])
  /\ tagSeq = 5
  /\ lembretes_tags = {<<1, 1>>, <<2, 1>>}
  /\ notificacoes = <<>>
  /\ notifSeq = 1
  /\ tx = TxIdle
  /\ resp = NoResp
  /\ lista = <<>>
  /\ agora = 0
  /\ ContasIniciais

\* the reminder ids and the tag ids that requests name: those of the rows
\* above and, beyond them, ids that no row has
\* the tagIds of the requests of SpecAssoc
ListasAssoc == ListasTagIds(MaxTagsAssoc)

NextAssoc ==
  \/ \E u \in Usuarios, id \in 1..MaxLembretesAssoc :
       resp.op = "none" /\ DeleteLembrete(u, id)
  \/ \E u \in Usuarios, id \in 1..MaxTagsAssoc : resp.op = "none" /\ DeleteTag(u, id)
  \/ Livre /\ \E u \in Usuarios, id \in 1..MaxLembretesAssoc, l \in ListasAssoc :
                AssociarInicio(u, id, l)
  \/ resp.op = "none" /\ AssociarDelete
  \/ resp.op = "none" /\ AssociarInsert
  \/ resp.op = "none" /\ AssociarCommit
  \/ resp.op = "none" /\ AssociarErro
  \/ resp.op = "none" /\ AssociarCrash
  \/ Entrega

SpecAssoc == InitAssoc /\ [][NextAssoc]_vars

-----------------------------------------------------------------------------
(* The notification log and its trigger *)

NextNotif ==
  \/ \E u \in Usuarios :
       resp.op = "none" /\ lembreteSeq <= MaxLembretesNotif /\ PostLembrete(u, Corpo("T"))
  \/ \E u \in Usuarios, b \in CorposNotif(MaxLembretesNotif) :
       resp.op = "none" /\ notifSeq <= MaxNotificacoesNotif /\ PostNotificacao(u, b)
  \/ \E u \in Usuarios, id \in 1..MaxNotificacoesNotif, b \in CorposNotifPut :
       resp.op = "none" /\ PutNotificacao(u, id, b)
  \/ \E u \in Usuarios, id \in 1..MaxNotificacoesNotif :
       resp.op = "none" /\ DeleteNotificacao(u, id)
  \/ \E u \in Usuarios, id \in 1..MaxLembretesNotif :
       resp.op = "none" /\ GetNotificacoesLembrete(u, id)
  \/ \E u \in Usuarios, id \in 1..MaxLembretesNotif :
       resp.op = "none" /\ DeleteLembrete(u, id)
  \/ Entrega

SpecNotif == Init /\ [][NextNotif]_vars

-----------------------------------------------------------------------------
(* The validation of reminders: one request, its body drawn from every      *)
(* combination of absent, null, valid and invalid fields, served on a       *)
(* database that holds one weekly reminder of user 1                        *)

CorposValid ==
  [titulo : {UNDEF, "T"},
   tipo : {UNDEF, "Normal", "Trabalho"},
   data_hora : {Null, Num(SegPorDia)},
   recorrente : {UNDEF, "false", "true"},
   frequencia : {UNDEF, NULL, "Diaria", "Semanal", "Mensal", "Anual", "Quinzenal"},
   dia : {Undef, Null, Num(0), Num(5), Num(32)},
   hora : {HUndef, HNull, Hora(10, 30)},
   dia_semana : {UNDEF, NULL, "Segunda", "Feira"},
   mes : {UNDEF, NULL, "Marco", "Brumario"}]

CorpoSemanal(dia_semana, hora) ==
  [titulo |-> "T", tipo |-> "Normal", data_hora |-> Null, recorrente |-> "true",
   frequencia |-> "Semanal", dia |-> Null, hora |-> hora, dia_semana |-> dia_semana,
   mes |-> NULL]

InitValid ==
  /\ esquema \in Esquemas
  /\ lembretes = (1 :> ValoresCriacao(1, CorpoSemanal("Segunda", Hora(10, 30))))
  /\ lembreteSeq = 2
  /\ tags = <<>>
  /\ tagSeq = 1
  /\ lembretes_tags = {}
  /\ notificacoes = <<>>
  /\ notifSeq = 1
  /\ tx = TxIdle
  /\ resp = NoResp
  /\ lista = <<>>
  /\ agora = 0
  /\ ContasIniciais

NextValid ==
  \/ resp.op = "none" /\ \E b \in CorposValid : PostLembrete(1, b)
  \/ resp.op = "none" /\ \E b \in CorposValid : PutLembrete(1, 1, b)

SpecValid == InitValid /\ [][NextValid]_vars

-----------------------------------------------------------------------------
(* The next occurrence: one reminder of user 1, created and updated with    *)
(* every schedule, listed while the clock moves over the days 0..MaxDia     *)

Horarios == {0, 10 * 3600 + 29 * 60, 10 * 3600 + 30 * 60 + 30, 23 * 3600 + 59 * 60 + 59}

Instantes == {d * SegPorDia + m : d \in 0..MaxDia, m \in Horarios}

CorposResolve ==
  [titulo : {"T"},
   tipo : {"Normal"},
   data_hora : {Null, Num(SegPorDia + 10 * 3600 + 30 * 60 + 15), Num(5 * SegPorDia)},
   recorrente : {"false", "true"},
   frequencia : {NULL, "Diaria", "Semanal"},
   dia : {Null},
   hora : {HNull, Hora(0, 0), Hora(10, 30), Hora(23, 59), HoraS(10, 30, 45), Hora(25, 0)},
   dia_semana : diasValidos \cup {NULL, "Feira"},
   mes : {NULL}]

\* the clock moves to the next instant of the sample
Proximo(t) == t \in Instantes /\ t > agora /\ \A i \in Instantes : i > agora => t <= i

NextResolve ==
  \/ \E b \in CorposResolve : lembreteSeq = 1 /\ PostLembrete(1, b)
  \/ \E b \in CorposResolve :
       /\ resp.op = "POST /lembretes" /\ resp.body = Corpo("T")
       /\ PutLembrete(1, 1, b)
  \/ lembreteSeq > 1 /\ GetLembretes(1, UNDEF, UNDEF)
  \/ \E t \in Instantes : resp.op = "GET /lembretes" /\ Proximo(t) /\ Tick(t)

SpecResolve == Init /\ [][NextResolve]_vars

-----------------------------------------------------------------------------
(* The calendar schedules: one reminder of user 1, created Daily, Monthly   *)
(* or Yearly, listed while the clock moves over sample days of the years    *)
(* AnoBase..AnoBase+MaxAno                                                  *)

\* the days 1, 15, 28, 29 and 31 of January, February and December; those
\* that a month does not have fall in the month after it
DiasAgenda ==
  {NovaData(AnoBase + a, m, d) : a \in 0..MaxAno, m \in {0, 1, 11}, d \in {1, 15, 28, 29, 31}}

InstantesAgenda == {d + m : d \in DiasAgenda, m \in Horarios}

HorasAgenda == {Hora(0, 0), Hora(10, 30), Hora(23, 59), HoraS(10, 30, 45), Hora(25, 0)}

CorpoAgenda(frequencia, dia, mes, hora) ==
  [titulo |-> "T", tipo |-> "Normal", data_hora |-> Null, recorrente |-> "true",
   frequencia |-> frequencia, dia |-> dia, hora |-> hora, dia_semana |-> NULL, mes |-> mes]

CorposAgenda ==
  {CorpoAgenda("Diaria", Null, NULL, h) : h \in HorasAgenda}
    \cup {CorpoAgenda("Mensal", Num(d), NULL, h) : d \in {1, 15, 28, 31}, h \in HorasAgenda}
    \cup {CorpoAgenda("Anual", Num(d), m, h) :
            d \in {1, 28, 29, 31}, m \in {"Janeiro", "Fevereiro", "Abril", "Dezembro"},
            h \in HorasAgenda}

\* the instants of the sample that are after the clock
FuturosAgenda == {i \in InstantesAgenda : i > agora}

\* the clock moves to the next instant of the sample
ProximoAgenda == CHOOSE t \in FuturosAgenda : \A i \in FuturosAgenda : t <= i

NextAgenda ==
  \/ \E b \in CorposAgenda : lembreteSeq = 1 /\ PostLembrete(1, b)
  \/ lembreteSeq > 1 /\ GetLembretes(1, UNDEF, UNDEF)
  \/ resp.op = "GET /lembretes" /\ FuturosAgenda # {} /\ Tick(ProximoAgenda)

SpecAgenda == Init /\ [][NextAgenda]_vars

-----------------------------------------------------------------------------
(* The protected routes: authMiddleware runs first and its handler after    *)
(* it, while users rotate their keys, change their email, deactivate their  *)
(* account, and the tokens of one day expire                                *)

\* the Authorization headers sent: none, no token, every key drawn so far
\* and the next one, and tokens for the ids 1..3 that expire after one day
\* or after two
Credenciais ==
  {SemCabecalho, SemToken}
    \cup {Chave(c) : c \in 1..(MaxChaves + 1)}
    \cup {Jwt(u, a, e) : u \in 1..3, a \in {"ok", "invalida"}, e \in {SegPorDia, 2 * SegPorDia}}

CorposUsuario ==
  {CorpoUsuario(UNDEF, "inativo"), CorpoUsuario("b@x", UNDEF), CorpoUsuario("c@x", UNDEF),
   CorpoUsuario(UNDEF, "suspenso"), CorpoUsuario(UNDEF, UNDEF)}

\* the request has passed authMiddleware and its handler has not answered
Autenticado == reqUser.k # "none" /\ resp.op = "none"

NextAuth ==
  \/ \E cred \in Credenciais : Autenticar(cred)
  \/ Autenticado /\ lembreteSeq <= MaxLembretesAuth /\ PostLembrete(reqUser.userId, Corpo("T"))
  \/ \E id \in 1..MaxLembretesAuth : Autenticado /\ DeleteLembrete(reqUser.userId, id)
  \/ Autenticado /\ GetPerfil(reqUser.userId)
  \/ Autenticado /\ chaveSeq <= MaxChaves /\ RegenerarApiKey(reqUser.userId)
  \/ \E b \in CorposUsuario : Autenticado /\ PutUsuario(reqUser.userId, b)
  \/ resp.op = "none" /\ reqUser.k = "none" /\ agora < SegPorDia /\ Tick(SegPorDia)
  \/ Entrega

SpecAuth == Init /\ [][NextAuth]_vars

-----------------------------------------------------------------------------
(* The routes of /verificacao, without authentication, one request at a     *)
(* time, while users rotate their API keys                                  *)

CorposVerificacao ==
  {CorpoVerificacao(n) :
     n \in {NumerosUndef, NumerosTexto, NumerosArray(<<>>),
            NumerosArray(<<Str(<<"6", "3">>).v>>),
            NumerosArray(<<Str(<<"(", "6", ")", "3">>).v, Str(<<"9">>).v>>)}}

CorposSalvar == {CorpoSalvar(k) : k \in {Undef} \cup {Num(c) : c \in 0..(MaxChavesGateway + 1)}}

RetornosGateway ==
  {GatewayOk(TRUE), GatewayOk(FALSE), GatewayNaoLista, GatewayErroRede,
   GatewayErroHttp(401, "Unauthorized"), GatewayErroHttp(500, "instance offline")}

DestinosDaRejeicao == {"pendente", "terminado", "next"}

NextGateway ==
  \/ \E b \in CorposVerificacao : resp.op = "none" /\ VerificarWhatsapp(b)
  \/ \E r \in RetornosGateway : VerificarNumeros(r)
  \/ \E b \in CorposSalvar : resp.op = "none" /\ SalvarContato(b)
  \/ SalvarContatoSelect
  \/ \E r \in RetornosGateway \ {GatewayNaoLista} : SalvarContatoEnvia(r)
  \/ \E d \in DestinosDaRejeicao : RejeicaoDoHandler(d)
  \/ SemResposta
  \/ \E u \in Usuarios :
       resp.op = "none" /\ pedido.pc = "idle" /\ chaveSeq <= MaxChavesGateway
         /\ RegenerarApiKey(u)
  \/ Entrega

SpecGateway == Init /\ [][NextGateway]_vars

\* the event loop runs every continuation that is ready: a request that has
\* started goes on until it is answered or left without an answer
Andamento ==
  \/ \E r \in RetornosGateway : VerificarNumeros(r)
  \/ SalvarContatoSelect
  \/ \E r \in RetornosGateway \ {GatewayNaoLista} : SalvarContatoEnvia(r)
  \/ \E d \in DestinosDaRejeicao : RejeicaoDoHandler(d)
  \/ SemResposta
  \/ Entrega

SpecGatewayVivo == Init /\ [][NextGateway]_vars /\ WF_vars(Andamento)

-----------------------------------------------------------------------------
(* Registration: up to MaxRegistros requests at a time, each a SELECT and,  *)
(* after the password is hashed, an INSERT                                  *)

CorposRegistro ==
  {CorpoRegistro(n, e, "s", t) :
     n \in {"N"}, e \in {"a@x", "c@x", "d@x"},
     t \in {Str(<<"1", "1">>), Str(<<"(", "3", ")", "3">>), Str(<<"3", "-", "3">>),
            Str(<<"4">>)}}
    \cup {CorpoRegistro(UNDEF, "a@x", "s", Str(<<"4">>)),
          CorpoRegistro("N", "c@x", "s", StrUndef),
          CorpoRegistro("N", "c@x", "s", Str(<<>>))}

NextRegistro ==
  \/ \E n \in 1..MaxRegistros, b \in CorposRegistro :
       /\ resp.op = "none"
       /\ usuarioSeq + Cardinality(DOMAIN registros) <= MaxUsuarios
       /\ RegistroSelect(n, b)
  \/ \E n \in 1..MaxRegistros : resp.op = "none" /\ RegistroInsert(n)
  \/ Entrega

SpecRegistro == Init /\ [][NextRegistro]_vars

-----------------------------------------------------------------------------
(* The foreign keys: on the database where user 2 has a reminder with a tag  *)
(* and a notification, both users create and delete reminders and tags and  *)
(* replace associations, and users are deleted from the database            *)

NextCascata ==
  \/ \E u \in Usuarios : resp.op = "none" /\ SqlDeleteUsuario(u)
  \/ \E u \in Usuarios :
       Livre /\ lembreteSeq <= MaxLembretesCascata /\ PostLembrete(u, Corpo("T"))
  \/ \E u \in Usuarios :
       Livre /\ tagSeq <= MaxTagsCascata /\ PostTag(u, CorpoTag("n1", UNDEF, NULL))
  \/ \E u \in Usuarios, id \in 1..MaxLembretesCascata : resp.op = "none" /\ DeleteLembrete(u, id)
  \/ \E u \in Usuarios, id \in 1..MaxTagsCascata : resp.op = "none" /\ DeleteTag(u, id)
  \/ \E u \in Usuarios, id \in 1..MaxLembretesCascata, t \in 1..MaxTagsCascata :
       Livre /\ AssociarInicio(u, id, TagIdsArray(<<t>>))
  \/ resp.op = "none" /\ AssociarDelete
  \/ resp.op = "none" /\ AssociarInsert
  \/ resp.op = "none" /\ AssociarCommit
  \/ resp.op = "none" /\ AssociarErro
  \/ resp.op = "none" /\ AssociarCrash
  \/ Entrega

SpecCascata == InitPovoado /\ [][NextCascata]_vars

-----------------------------------------------------------------------------
(* Properties of the tag associations (SpecAssoc) *)

\* the step serves the start of POST /tags/lembrete/:lembreteId: it either
\* answers at once or opens the transaction
InicioAssoc ==
  /\ tx.pc = "idle" /\ resp.op = "none"
  /\ tx'.pc = "delete" \/ resp'.op = AssocOp

\* the caller, the reminder and the tagIds of that request
PedidoAssoc ==
  IF tx'.pc = "delete"
    THEN [user |-> tx'.user, id |-> tx'.id, tagIds |-> TagIdsArray(tx'.tagIds)]
    ELSE [user |-> resp'.user, id |-> resp'.id, tagIds |-> resp'.body.tagIds]

\* the list holds an id that is no tag or a tag of another user
TemTagAlheia(tagIds, u) ==
  /\ tagIds.k = "array"
  /\ \E i \in 1..Len(tagIds.v) :
       tagIds.v[i] \notin DOMAIN tags \/ tags[tagIds.v[i]].usuario_id # u

\* C1, as stated: a call whose tagIds holds an id that does not exist or is
\* not owned by the caller is answered 400 and changes no link.
C1_Original ==
  [][(InicioAssoc /\ TemTagAlheia(PedidoAssoc.tagIds, PedidoAssoc.user))
       => /\ resp'.op = AssocOp /\ resp'.code = HttpStatus.BAD_REQUEST
          /\ tx'.pc = "idle"
          /\ lembretes_tags' = lembretes_tags]_vars

\* C1, amended: such a call fails as a whole and changes no link; it is
\* answered 400 when the reminder exists and is owned by the caller, and 404
\* (reminder not found) otherwise.
C1_RejeitaTagAlheia ==
  [][(InicioAssoc /\ TemTagAlheia(PedidoAssoc.tagIds, PedidoAssoc.user))
       => /\ resp'.op = AssocOp
          /\ resp'.code = IF LembreteDoUsuario(PedidoAssoc.id, PedidoAssoc.user)
                            THEN HttpStatus.BAD_REQUEST ELSE HttpStatus.NOT_FOUND
          /\ tx'.pc = "idle"
          /\ lembretes_tags' = lembretes_tags]_vars

\* a 400 for a list that names a tag of another user, on an own reminder
\* that keeps its links
C1_Witness ==
  /\ resp.op = AssocOp /\ resp.code = HttpStatus.BAD_REQUEST
  /\ LembreteDoUsuario(resp.id, resp.user)
  /\ resp.body.tagIds.k = "array" /\ Len(resp.body.tagIds.v) = 2
  /\ \E i \in 1..2 : /\ resp.body.tagIds.v[i] \in DOMAIN tags
                     /\ tags[resp.body.tagIds.v[i]].usuario_id # resp.user
  /\ \E i \in 1..2 : resp.body.tagIds.v[i] \in TagsDoLembrete(resp.id)

\* C2: a step of the open transaction after its DELETE that is not the
\* successful commit leaves the committed links unchanged, the reminder
\* linked to exactly the tags it had before the call, and when such a step
\* ends the transaction its caller gets a 500 or, when the process stopped,
\* no response at all.
C2_Rollback ==
  [][(tx.pc \in {"insert", "commit"} /\ tx' # tx
       /\ ~(resp'.op = AssocOp /\ resp'.code = HttpStatus.OK))
       => /\ lembretes_tags' = lembretes_tags
          /\ LinksDe(lembretes_tags', tx.id) = tx.antes
          /\ tx'.pc = "idle" =>
               /\ resp'.op = AssocOp /\ resp'.user = tx.user /\ resp'.id = tx.id
               /\ resp'.code \in {HttpStatus.INTERNAL_SERVER_ERROR, 0}]_vars

\* the insert of the second tag failed after the old links were deleted, and
\* the reminder still has exactly its old links
C2_Witness ==
  /\ resp.op = AssocOp /\ resp.code = HttpStatus.INTERNAL_SERVER_ERROR
  /\ resp.body.antes # {}
  /\ Len(resp.body.tagIds.v) = 2
  /\ resp.body.tagIds.v[2] \notin DOMAIN tags
  /\ TagsDoLembrete(resp.id) = resp.body.antes

\* C3: a successful call for reminder r with the list T leaves r linked to
\* exactly the tags of T, a non-empty list of distinct tags of the caller,
\* and leaves the links of every other reminder as they were.
C3_Substitui ==
  [][(resp'.op = AssocOp /\ resp'.code = HttpStatus.OK)
       => /\ LinksDe(lembretes_tags', resp'.id) = Elementos(resp'.body.tagIds.v)
          /\ {lt \in lembretes_tags' : lt[1] # resp'.id}
               = {lt \in lembretes_tags : lt[1] # resp'.id}
          /\ Len(resp'.body.tagIds.v) > 0
          /\ Cardinality(Elementos(resp'.body.tagIds.v)) = Len(resp'.body.tagIds.v)
          /\ \A t \in Elementos(resp'.body.tagIds.v) :
               t \in DOMAIN tags /\ tags[t].usuario_id = resp'.user]_vars

\* [A,B] had been associated, [B,C] was associated, and the links are {B,C}
C3_Witness ==
  /\ resp.op = AssocOp /\ resp.code = HttpStatus.OK
  /\ resp.body.antes = {1, 2}
  /\ resp.body.tagIds.v = <<2, 3>>
  /\ TagsDoLembrete(resp.id) = {2, 3}
  /\ \E l \in DOMAIN lembretes : l # resp.id /\ TagsDoLembrete(l) # {}

-----------------------------------------------------------------------------
(* Properties of the notification log (SpecNotif) *)

\* C4, as stated: a notification created with outcome Sucesso leaves its
\* parent reminder Concluido, also when the reminder was Concluido before,
\* and a notification created with outcome Falha leaves the status of the
\* parent reminder as it was.
C4_Original ==
  [][(resp'.op = "POST /notificacoes" /\ resp'.code = HttpStatus.CREATED)
       => LET nova == notificacoes'[resp'.id] IN
          /\ nova.status = "Sucesso"
               => lembretes'[nova.lembrete_id].status = "Concluido"
          /\ nova.status = "Falha"
               => lembretes'[nova.lembrete_id].status
                    = lembretes[nova.lembrete_id].status]_vars

-----------------------------------------------------------------------------
(* Properties of ownership (Spec) *)

OpsComAlvo ==
  {"PUT /lembretes/:id", "DELETE /lembretes/:id", "PUT /tags/:id",
   "DELETE /tags/:id", "PUT /notificacoes/:id", "DELETE /notificacoes/:id"}

\* the owner of a reminder, a tag or a notification of the given tables;
\* 0 when there is no such row
DonoLembrete(ls, id) == IF id \in DOMAIN ls THEN ls[id].usuario_id ELSE 0
DonoTag(ts, id) == IF id \in DOMAIN ts THEN ts[id].usuario_id ELSE 0
DonoNotificacao(ns, ls, id) ==
  IF id \in DOMAIN ns THEN DonoLembrete(ls, ns[id].lembrete_id) ELSE 0

\* the row the request names does not exist or is owned by another user
AlvoAlheio(op, id, u) ==
  CASE op \in {"PUT /lembretes/:id", "DELETE /lembretes/:id"} ->
         DonoLembrete(lembretes, id) # u
    [] op \in {"PUT /tags/:id", "DELETE /tags/:id"} ->
         DonoTag(tags, id) # u
    [] op \in {"PUT /notificacoes/:id", "DELETE /notificacoes/:id"} ->
         DonoNotificacao(notificacoes, lembretes, id) # u

\* C5, as stated: an Update or Delete of a reminder, tag or notification
\* that does not exist or is not owned by the caller is answered 404 and
\* changes no row.
C5_Original ==
  [][(resp'.op \in OpsComAlvo /\ AlvoAlheio(resp'.op, resp'.id, resp'.user))
       => resp'.code = HttpStatus.NOT_FOUND /\ store' = store]_vars

\* C5, amended: such a request changes no row and is never answered 403;
\* it is answered 404, except that the Update of a tag with none of nome,
\* cor and icone in its body is answered 400.
C5_NaoEncontrado ==
  [][(resp'.op \in OpsComAlvo /\ AlvoAlheio(resp'.op, resp'.id, resp'.user))
       => /\ store' = store
          /\ resp'.code # HttpStatus.FORBIDDEN
          /\ resp'.code =
               IF /\ resp'.op = "PUT /tags/:id"
                  /\ resp'.body = CorpoTag(UNDEF, UNDEF, UNDEF)
                 THEN HttpStatus.BAD_REQUEST ELSE HttpStatus.NOT_FOUND]_vars

\* the Update of a tag of another user was answered 404 and the tag has
\* kept its name
C5_Witness ==
  /\ resp.op = "PUT /tags/:id" /\ resp.code = HttpStatus.NOT_FOUND
  /\ DonoTag(tags, resp.id) \notin {0, resp.user}
  /\ resp.body.nome = "n2"
  /\ tags[resp.id].nome = "n1"

\* the rows of the given tables that user b owns
LinhasDe(ls, ts, lt, ns, b) ==
  [lembretes |-> {<<l, ls[l]>> : l \in {x \in DOMAIN ls : DonoLembrete(ls, x) = b}},
   tags |-> {<<t, ts[t]>> : t \in {x \in DOMAIN ts : DonoTag(ts, x) = b}},
   lembretes_tags |-> {x \in lt : DonoLembrete(ls, x[1]) = b \/ DonoTag(ts, x[2]) = b},
   notificacoes |-> {<<n, ns[n]>> : n \in {x \in DOMAIN ns : DonoNotificacao(ns, ls, x) = b}}]

\* the user whose request the step serves; 0 for the delivery of a response
Autor ==
  IF tx.pc # "idle" THEN tx.user
  ELSE IF tx'.pc # "idle" THEN tx'.user
  ELSE resp'.user

\* C6: a step that serves a request of user A leaves the reminders, tags,
\* links and notifications of every other user as they were, and the rows
\* of a response to A are all owned by A.
C6_Isolamento ==
  [][/\ \A b \in Usuarios \ {Autor} :
          LinhasDe(lembretes', tags', lembretes_tags', notificacoes', b)
            = LinhasDe(lembretes, tags, lembretes_tags, notificacoes, b)
     /\ resp'.op \in {"GET /lembretes", "POST /lembretes"}
          => \A l \in resp'.data : DonoLembrete(lembretes', l) = resp'.user
     /\ resp'.op \in {"GET /tags", "POST /tags", "GET /tags/lembrete/:lembreteId"}
          => \A t \in resp'.data : DonoTag(tags', t) = resp'.user
     /\ resp'.op \in {"GET /notificacoes/lembrete/:lembreteId", "POST /notificacoes"}
          => \A n \in resp'.data :
               DonoNotificacao(notificacoes', lembretes', n) = resp'.user]_vars

\* user 1 lists the reminders and gets an own one, while user 2 has a
\* reminder, a tag, a link and a notification
C6_Witness ==
  /\ resp.op = "GET /lembretes" /\ resp.user = 1 /\ resp.data # {}
  /\ LinhasDe(lembretes, tags, lembretes_tags, notificacoes, 2).lembretes # {}
  /\ LinhasDe(lembretes, tags, lembretes_tags, notificacoes, 2).tags # {}
  /\ LinhasDe(lembretes, tags, lembretes_tags, notificacoes, 2).lembretes_tags # {}
  /\ LinhasDe(lembretes, tags, lembretes_tags, notificacoes, 2).notificacoes # {}

-----------------------------------------------------------------------------
(* Properties of the validation of reminders (SpecValid) *)

OpsLembrete == {"POST /lembretes", "PUT /lembretes/:id"}

\* a recurring row has its frequency and the fields the frequency requires
RecorrenciaCompleta(row) ==
  row.recorrente = Num(1) =>
    /\ row.frequencia # NULL
    /\ row.hora.k = "time"
    /\ row.frequencia = "Semanal" => row.dia_semana # NULL
    /\ row.frequencia = "Mensal" => row.dia.k = "int"
    /\ row.frequencia = "Anual" => row.dia.k = "int" /\ row.mes # NULL

\* a body with recorrente = true that lacks the frequency or one of the
\* fields the frequency requires
RecorrenciaIncompleta(b) ==
  /\ b.recorrente = "true"
  /\ \/ ~TruthyS(b.frequencia)
     \/ ~TruthyH(b.hora)
     \/ b.frequencia = "Semanal" /\ ~TruthyS(b.dia_semana)
     \/ b.frequencia = "Mensal" /\ ~TruthyI(b.dia)
     \/ b.frequencia = "Anual" /\ (~TruthyI(b.dia) \/ ~TruthyS(b.mes))

\* C7, as stated: every reminder that Create or Update persists with
\* recorrente = true has a frequency and the fields the frequency requires,
\* and a Create or Update whose body lacks them is answered 400 and changes
\* nothing.
C7_Original ==
  [][resp'.op \in OpsLembrete
       => /\ \A l \in DOMAIN lembretes' : RecorrenciaCompleta(lembretes'[l])
          /\ RecorrenciaIncompleta(resp'.body)
               => resp'.code = HttpStatus.BAD_REQUEST /\ store' = store]_vars

\* recorrente is true and a frequency is given
ComFrequencia(b) == TruthyB(b.recorrente) /\ TruthyS(b.frequencia)

\* the frequency-specific required fields of the body are missing
FaltaCampo(b) ==
  \/ b.frequencia = "Mensal" /\ (~TruthyI(b.dia) \/ ~TruthyH(b.hora))
  \/ b.frequencia = "Semanal" /\ (~TruthyS(b.dia_semana) \/ ~TruthyH(b.hora))
  \/ b.frequencia = "Anual" /\ (~TruthyI(b.dia) \/ ~TruthyS(b.mes) \/ ~TruthyH(b.hora))

MsgObrigatorios == {"Titulo e tipo sao obrigatorios"}
MsgEnum == {"Tipo invalido", "Frequencia invalida", "Dia da semana invalido", "Mes invalido"}
MsgCampos == {"Para lembretes mensais, dia e hora sao obrigatorios",
              "Para lembretes semanais, dia da semana e hora sao obrigatorios",
              "Para lembretes anuais, dia, mes e hora sao obrigatorios"}
MsgIntervalo == {"Dia deve estar entre 1 e 31"}

\* the index of the first TRUE of a sequence of booleans, 0 when none
Primeira(falhas) ==
  IF \E k \in DOMAIN falhas : falhas[k]
    THEN CHOOSE k \in DOMAIN falhas : falhas[k] /\ \A j \in 1..(k - 1) : ~falhas[j]
    ELSE 0

\* the four stages in the order stated: required fields, enum membership
\* (category, frequency, weekday, month), frequency-specific required
\* fields, day-of-month range
EtapasDeclaradas(b) ==
  <<~TruthyS(b.titulo) \/ ~TruthyS(b.tipo),
    \/ b.tipo \notin tiposValidos
    \/ ComFrequencia(b) /\ b.frequencia \notin frequenciasValidas
    \/ ComFrequencia(b) /\ b.frequencia = "Semanal"
         /\ TruthyS(b.dia_semana) /\ b.dia_semana \notin diasValidos
    \/ ComFrequencia(b) /\ b.frequencia = "Anual"
         /\ TruthyS(b.mes) /\ b.mes \notin mesesValidos,
    ComFrequencia(b) /\ FaltaCampo(b),
    ComFrequencia(b) /\ b.frequencia = "Mensal"
      /\ b.dia.k = "int" /\ (b.dia.v < 1 \/ b.dia.v > 31)>>

MsgDeclaradas == <<MsgObrigatorios, MsgEnum, MsgCampos, MsgIntervalo>>

\* C8, as stated: Create reports the error of the earliest failing stage of
\* required fields, enum membership, frequency-specific required fields and
\* day range, with a 400, and a rejected request persists nothing.
C8_Original ==
  [][resp'.op = "POST /lembretes"
       => LET k == Primeira(EtapasDeclaradas(resp'.body)) IN
          /\ k # 0 => /\ resp'.code = HttpStatus.BAD_REQUEST
                      /\ resp'.msg \in MsgDeclaradas[k]
          /\ resp'.code # HttpStatus.CREATED => store' = store]_vars

\* the checks in the order of the handler: required fields, category enum,
\* and for a recurring body with a frequency: frequency enum, the required
\* fields of the frequency, and last the day range (Mensal), the weekday
\* enum (Semanal) or the month enum (Anual)
EtapasDoCodigo(b) ==
  <<~TruthyS(b.titulo) \/ ~TruthyS(b.tipo),
    b.tipo \notin tiposValidos,
    ComFrequencia(b) /\ b.frequencia \notin frequenciasValidas,
    ComFrequencia(b) /\ FaltaCampo(b),
    /\ ComFrequencia(b)
    /\ \/ b.frequencia = "Mensal" /\ (b.dia.v < 1 \/ b.dia.v > 31)
       \/ b.frequencia = "Semanal" /\ b.dia_semana \notin diasValidos
       \/ b.frequencia = "Anual" /\ b.mes \notin mesesValidos>>

MsgDoCodigo ==
  <<MsgObrigatorios, {"Tipo invalido"}, {"Frequencia invalida"}, MsgCampos,
    {"Dia deve estar entre 1 e 31", "Dia da semana invalido", "Mes invalido"}>>

\* C8, amended: Create checks the required fields, then the category enum,
\* and only for recorrente = true with a frequency: the frequency enum, then
\* the required fields of the frequency, then the day range (Mensal), the
\* weekday enum (Semanal) or the month enum (Anual); the first failing check
\* is the one reported, with a 400; a request that fails none is answered
\* 201 or, when the database refuses the row, 500; every request not
\* answered 201 persists nothing.
C8_OrdemValidacao ==
  [][resp'.op = "POST /lembretes"
       => LET k == Primeira(EtapasDoCodigo(resp'.body)) IN
          /\ k # 0 => /\ resp'.code = HttpStatus.BAD_REQUEST
                      /\ resp'.msg \in MsgDoCodigo[k]
          /\ k = 0 => resp'.code \in {HttpStatus.CREATED,
                                      HttpStatus.INTERNAL_SERVER_ERROR}
          /\ resp'.code # HttpStatus.CREATED => store' = store]_vars

\* a weekly body with an unknown weekday and no hora was answered with the
\* message of the required fields, and nothing was persisted
C8_Witness ==
  /\ resp.op = "POST /lembretes" /\ resp.code = HttpStatus.BAD_REQUEST
  /\ resp.body.recorrente = "true" /\ resp.body.frequencia = "Semanal"
  /\ resp.body.dia_semana = "Feira" /\ ~TruthyH(resp.body.hora)
  /\ resp.msg = "Para lembretes semanais, dia da semana e hora sao obrigatorios"
  /\ DOMAIN lembretes = {1}

\* the texts of the recurrence checks of the creation
RazoesDeRecorrencia ==
  {"Frequencia invalida",
   "Para lembretes mensais, dia e hora sao obrigatorios", "Dia deve estar entre 1 e 31",
   "Para lembretes semanais, dia da semana e hora sao obrigatorios", "Dia da semana invalido",
   "Para lembretes anuais, dia, mes e hora sao obrigatorios", "Mes invalido"}

\* the creation rejects the recurrence fields of body b (with a title and a
\* type that pass the checks made before them)
CriacaoRejeitaRecorrencia(b) ==
  ValidaCriacao([b EXCEPT !.titulo = "T", !.tipo = "Normal"]) \in RazoesDeRecorrencia

\* C18, as stated: an update of an own reminder with recorrente = true is
\* rejected with a validation error exactly when the creation rejects the
\* same body for a recurrence reason.
C18_Original ==
  (resp.op = "PUT /lembretes/:id" /\ resp.code # HttpStatus.NOT_FOUND
     /\ resp.body.recorrente = "true")
    => ((resp.code = HttpStatus.BAD_REQUEST /\ resp.msg \in RazoesDeRecorrencia)
          <=> CriacaoRejeitaRecorrencia(resp.body))

-----------------------------------------------------------------------------
(* Properties of the next occurrence (SpecResolve) *)

\* the instant an ISO string denotes
Instante(iso) == iso.dia * SegPorDia + iso.hh * 3600 + iso.mm * 60 + iso.ss

\* the name of the weekday of a day number; day 0 is a Sunday
NomeDoDia(dia) ==
  <<"Domingo", "Segunda", "Terca", "Quarta", "Quinta", "Sexta", "Sabado">>[(dia % 7) + 1]

ListaOk(r) == r.op = "GET /lembretes" /\ r.code = HttpStatus.OK

\* C9: the next occurrence of a non-recurring reminder is its stored
\* data_hora, in the past or not, and null when data_hora is null; a later
\* listing of the same reminder gives the same value.
C9_NaoRecorrente ==
  [][ListaOk(resp')
       => \A l \in resp'.data :
            ~TruthyI(lembretes'[l].recorrente) =>
              /\ IF lembretes'[l].data_hora.k = "int"
                   THEN /\ lista'[l].k = "iso"
                        /\ Instante(lista'[l]) = lembretes'[l].data_hora.v
                   ELSE lista'[l].k = "null"
              /\ (ListaOk(resp) /\ l \in DOMAIN lista /\ lembretes[l] = lembretes'[l])
                   => lista'[l] = lista[l]]_vars

\* a non-recurring reminder with a frequency and a hora, whose data_hora
\* has passed, was listed again and resolved to its data_hora
C9_Witness ==
  /\ ListaOk(resp) /\ 1 \in resp.data
  /\ lembretes[1].recorrente = Num(0)
  /\ lembretes[1].frequencia = "Diaria" /\ lembretes[1].hora.k = "time"
  /\ lembretes[1].data_hora.k = "int"
  /\ agora > lembretes[1].data_hora.v + SegPorDia
  /\ Instante(lista[1]) = lembretes[1].data_hora.v

\* the row is a recurring weekly reminder
Semanal(row) == TruthyI(row.recorrente) /\ row.frequencia = "Semanal"

-----------------------------------------------------------------------------
(* Properties of the calendar schedules (SpecAgenda) *)

\* the step is a listing answered 200 that shows reminder 1
Listagem == agora' = agora /\ ListaOk(resp') /\ 1 \in resp'.data

Mensal(row) == TruthyI(row.recorrente) /\ row.frequencia = "Mensal" /\ TruthyH(row.hora)

\* the time of day of a TIME value, in seconds
SegundosDe(hora) == hora.v[1] * 3600 + hora.v[2] * 60 + hora.v[3]

\* the months since January of year 0
MesAbsoluto(d) == getFullYear(d) * 12 + getMonth(d)

\* C11, as stated: a Monthly reminder with day-of-month at most 28 whose
\* time-of-day is in the past today resolves to the same day-of-month of the
\* next month (January of the next year after December).
C11_Original ==
  [][(/\ Listagem
      /\ Mensal(lembretes'[1]) /\ lembretes'[1].dia.v \in 1..28
      /\ SegundosDe(lembretes'[1].hora) < agora % SegPorDia)
       => /\ lista'[1].k = "iso"
          /\ getDate(Instante(lista'[1])) = lembretes'[1].dia.v
          /\ MesAbsoluto(Instante(lista'[1])) = MesAbsoluto(agora) + 1]_vars

\* the day-of-month at the hours and minutes of hora, in the month of the
\* clock, is before the clock
PassouNoMes(row, t) ==
  \/ row.dia.v < getDate(t)
  \/ row.dia.v = getDate(t) /\ row.hora.v[1] * 3600 + row.hora.v[2] * 60 < t % SegPorDia

\* C11, amended: a Monthly reminder with day-of-month 1..28 and a time-of-day
\* below 24:00 resolves to that day-of-month at the hours and minutes of the
\* time-of-day, seconds zero: of the next month (January of the next year
\* after December) when that instant of the current month is in the past,
\* and of the current month otherwise.
C11_Mensal ==
  [][(/\ Listagem
      /\ Mensal(lembretes'[1]) /\ lembretes'[1].dia.v \in 1..28
      /\ lembretes'[1].hora.v[1] <= 23)
       => /\ lista'[1].k = "iso"
          /\ getDate(Instante(lista'[1])) = lembretes'[1].dia.v
          /\ <<lista'[1].hh, lista'[1].mm, lista'[1].ss>>
               = <<lembretes'[1].hora.v[1], lembretes'[1].hora.v[2], 0>>
          /\ MesAbsoluto(Instante(lista'[1]))
               = MesAbsoluto(agora) + (IF PassouNoMes(lembretes'[1], agora) THEN 1 ELSE 0)]_vars

\* on 28 December, after 10:30, the Monthly reminder of day 28 at 10:30 was
\* listed and resolved to 28 January of the next year
C11_Witness ==
  /\ ListaOk(resp) /\ 1 \in resp.data
  /\ Mensal(lembretes[1]) /\ lembretes[1].dia.v = 28 /\ lembretes[1].hora.v = <<10, 30, 0>>
  /\ getMonth(agora) = 11 /\ getDate(agora) = 28 /\ agora % SegPorDia > 10 * 3600 + 30 * 60
  /\ lista[1].k = "iso"
  /\ getFullYear(Instante(lista[1])) = getFullYear(agora) + 1
  /\ getMonth(Instante(lista[1])) = 0 /\ getDate(Instante(lista[1])) = 28

Diaria(row) == TruthyI(row.recorrente) /\ row.frequencia = "Diaria" /\ TruthyH(row.hora)

Anual(row) == TruthyI(row.recorrente) /\ row.frequencia = "Anual" /\ TruthyH(row.hora)

\* today at hora has passed
PassouHoje(row, t) == SegundosDe(row.hora) < t % SegPorDia

\* this year's (mes, dia) at hora has passed
PassouNoAno(row, t) ==
  \/ meses(row.mes) < getMonth(t)
  \/ meses(row.mes) = getMonth(t) /\ row.dia.v < getDate(t)
  \/ meses(row.mes) = getMonth(t) /\ row.dia.v = getDate(t) /\ PassouHoje(row, t)

\* C12, as stated: the next occurrence of a Daily or Yearly reminder is never
\* before the clock; for Daily it is today at hora, or tomorrow at hora when
\* today's instant has passed; for Yearly it is (mes, dia) at hora of this
\* year, or of the next year when this year's instant has passed.
C12_Original ==
  [][Listagem =>
       LET row == lembretes'[1]
           iso == lista'[1] IN
       /\ Diaria(row) =>
            /\ iso.k = "iso" /\ Instante(iso) >= agora
            /\ Instante(iso) = (agora \div SegPorDia) * SegPorDia + SegundosDe(row.hora)
                                + (IF PassouHoje(row, agora) THEN SegPorDia ELSE 0)
       /\ Anual(row) =>
            /\ iso.k = "iso" /\ Instante(iso) >= agora
            /\ getMonth(Instante(iso)) = meses(row.mes)
            /\ getDate(Instante(iso)) = row.dia.v
            /\ Instante(iso) % SegPorDia = SegundosDe(row.hora)
            /\ getFullYear(Instante(iso))
                 = getFullYear(agora) + (IF PassouNoAno(row, agora) THEN 1 ELSE 0)]_vars

-----------------------------------------------------------------------------
(* Properties of the protected routes (SpecAuth) *)

\* the users a bearer credential stands for: the Active user whose current
\* API key it is, or the Active user named by a token that is signed with
\* the secret and has not expired
TitularesDe(cred) ==
  {u \in DOMAIN usuarios :
     /\ usuarios[u].status = "ativo"
     /\ \/ cred.k = "chave" /\ usuarios[u].api_key = cred.v
        \/ cred.k = "jwt" /\ cred.assinatura = "ok" /\ cred.exp > agora /\ cred.userId = u}

OpsProtegidas ==
  {"POST /lembretes", "DELETE /lembretes/:id", "GET /usuarios/perfil", RegenerarOp,
   "PUT /usuarios"}

\* C13: a request passes authMiddleware only with a credential that stands
\* for an Active user, and passes as that user; every other credential (no
\* header, no token, a key that is not current, a bad or expired token, a
\* user that is inactive or missing) is answered 401 with the store and the
\* accounts unchanged; a protected handler answers or writes only for a
\* request that has passed.
C13_Autenticacao ==
  [][/\ (reqUser.k = "none" /\ reqUser'.k # "none")
          => TitularesDe(reqUser'.cred) = {reqUser'.userId}
     /\ (resp.op = "none" /\ resp'.op = "authMiddleware")
          => /\ TitularesDe(resp'.body) = {}
             /\ resp'.code = HttpStatus.UNAUTHORIZED
             /\ reqUser' = SemSessao
             /\ UNCHANGED <<store, contas>>
     /\ (resp.op = "none" /\ resp'.op \in OpsProtegidas)
          => reqUser.k # "none" /\ resp'.user = reqUser.userId
     /\ (store' # store \/ contas' # contas)
          => reqUser.k # "none" /\ resp'.op \in OpsProtegidas]_vars

\* the API key of a user who has deactivated the account was answered 401
C13_Witness ==
  /\ resp.op = "authMiddleware" /\ resp.code = HttpStatus.UNAUTHORIZED
  /\ resp.body.k = "chave"
  /\ \E u \in DOMAIN usuarios :
       usuarios[u].api_key = resp.body.v /\ usuarios[u].status = "inativo"
  /\ lembretes # <<>>

\* the key rotation is answered in this step
RespostaRegenerar ==
  resp.op = "none" /\ resp'.op = RegenerarOp /\ resp'.code = HttpStatus.OK

ChavesModelo == 1..(MaxChaves + 2)

\* C17: when POST /usuarios/regenerar-api-key succeeds for user u, the key u
\* had before is answered 401 from then on, the key in the response passes
\* authMiddleware as u, and the rows of the other users are unchanged; keys
\* are never issued twice, and a request passes with an API key only when it
\* is the current key of the user it passes as
C17_Rotacao ==
  /\ [](\A v \in DOMAIN usuarios : usuarios[v].api_key < chaveSeq)
  /\ [][/\ RespostaRegenerar =>
             \E u \in DOMAIN usuarios, antiga, nova \in ChavesModelo :
               /\ u = resp'.user /\ antiga = usuarios[u].api_key /\ resp'.data = {nova}
               /\ nova # antiga /\ nova >= chaveSeq /\ chaveSeq' > nova
               /\ ~(authMiddleware(Chave(antiga)).ok)'
               /\ (authMiddleware(Chave(antiga)).err.statusCode)' = HttpStatus.UNAUTHORIZED
               /\ (authMiddleware(Chave(nova)).ok)'
               /\ (authMiddleware(Chave(nova)).userId)' = u
               /\ \A v \in DOMAIN usuarios \ {u} : v \in DOMAIN usuarios' /\ usuarios'[v] = usuarios[v]
        /\ (\E v \in DOMAIN usuarios : usuarios'[v].api_key # usuarios[v].api_key)
             => RespostaRegenerar
        /\ (reqUser.k = "none" /\ reqUser'.k = "api")
             => usuarios[reqUser'.userId].api_key = reqUser'.cred.v
        /\ (resp.op = "none" /\ resp'.op = "authMiddleware" /\ resp'.body.k = "chave"
              /\ \A v \in DOMAIN usuarios : usuarios[v].api_key # resp'.body.v)
             => resp'.code = HttpStatus.UNAUTHORIZED]_vars

\* user 1 has rotated the key and is Active, the first key of user 1 was
\* just answered 401, and user 2 still has the first key
C17_Witness ==
  /\ resp.op = "authMiddleware" /\ resp.code = HttpStatus.UNAUTHORIZED
  /\ resp.body = Chave(1)
  /\ usuarios[1].api_key > 2 /\ usuarios[1].status = "ativo"
  /\ usuarios[2].api_key = 2

-----------------------------------------------------------------------------
(* Properties of the registration (SpecRegistro) *)

\* a registration is answered in this step
RespostaRegistro == resp.op = "none" /\ resp'.op = RegistroOp

\* the email or the digits of the phone of the body belong to a user
JaCadastrado(b) ==
  \E u \in DOMAIN usuarios :
    \/ usuarios[u].email = b.email
    \/ b.telefone.k = "str" /\ usuarios[u].telefone = telefoneNumerico(b.telefone.v)

\* no two users share an email or a phone number
SemDuplicados ==
  \A u, v \in DOMAIN usuarios :
    u # v => usuarios[u].email # usuarios[v].email
             /\ usuarios[u].telefone # usuarios[v].telefone

\* a 201 creates one user, with the email and the digits of the phone of
\* the request, which no user held
CriaUmUsuario ==
  (RespostaRegistro /\ resp'.code = HttpStatus.CREATED)
    => /\ ~JaCadastrado(resp'.body)
       /\ resp'.user \notin DOMAIN usuarios
       /\ DOMAIN usuarios' = DOMAIN usuarios \cup {resp'.user}
       /\ usuarios'[resp'.user].email = resp'.body.email
       /\ usuarios'[resp'.user].telefone = telefoneNumerico(resp'.body.telefone.v)
       /\ \A u \in DOMAIN usuarios : usuarios'[u] = usuarios[u]

\* C14, as stated: a registration whose email or digit-normalized phone is
\* held by a user is answered 409 and creates no user; no two users ever
\* share an email or a phone; a 201 creates one user with a new email and
\* phone.
C14_Original ==
  /\ []SemDuplicados
  /\ [][/\ (RespostaRegistro /\ JaCadastrado(resp'.body))
              => resp'.code = HttpStatus.CONFLICT /\ usuarios' = usuarios
         /\ CriaUmUsuario]_vars

\* C14, amended: such a registration that carries all four fields is
\* answered 409, and one that lacks a field is answered 400; neither
\* creates a user.
C14_Registro ==
  /\ []SemDuplicados
  /\ [][/\ (RespostaRegistro /\ JaCadastrado(resp'.body))
              => /\ usuarios' = usuarios
                 /\ resp'.code =
                      IF /\ TruthyS(resp'.body.nome) /\ TruthyS(resp'.body.email)
                         /\ TruthyS(resp'.body.senha) /\ TruthyQ(resp'.body.telefone)
                        THEN HttpStatus.CONFLICT ELSE HttpStatus.BAD_REQUEST
         /\ CriaUmUsuario]_vars

\* two registrations with the same new phone, written differently, had both
\* passed the SELECT; the first was answered 201 and the second is answered
\* 409 by the unique key
C14_Witness ==
  /\ resp.op = RegistroOp /\ resp.code = HttpStatus.CONFLICT
  /\ resp.msg = "Registro duplicado"
  /\ registros = <<>>
  /\ \E u \in DOMAIN usuarios :
       /\ u >= 3
       /\ usuarios[u].email # resp.body.email
       /\ usuarios[u].telefone = telefoneNumerico(resp.body.telefone.v)
       /\ usuarios[u].telefone # resp.body.telefone.v

-----------------------------------------------------------------------------
(* Properties of the foreign keys (SpecCascata) *)

\* no row refers to a row that does not exist
Integridade ==
  /\ \A l \in DOMAIN lembretes : lembretes[l].usuario_id \in DOMAIN usuarios
  /\ \A t \in DOMAIN tags : tags[t].usuario_id \in DOMAIN usuarios
  /\ \A lt \in lembretes_tags : lt[1] \in DOMAIN lembretes /\ lt[2] \in DOMAIN tags
  /\ \A n \in DOMAIN notificacoes : notificacoes[n].lembrete_id \in DOMAIN lembretes

\* the rows that hang on user u
LembretesDe(u) == {l \in DOMAIN lembretes : lembretes[l].usuario_id = u}
TagsDe(u) == {t \in DOMAIN tags : tags[t].usuario_id = u}

\* a step that deletes user u removes the reminders and tags of u with their
\* notifications and links, and nothing else
RemoveUsuario(u) ==
  (u \in DOMAIN usuarios /\ u \notin DOMAIN usuarios') =>
    /\ DOMAIN lembretes' = DOMAIN lembretes \ LembretesDe(u)
    /\ DOMAIN tags' = DOMAIN tags \ TagsDe(u)
    /\ lembretes_tags' = {lt \in lembretes_tags :
                            lt[1] \notin LembretesDe(u) /\ lt[2] \notin TagsDe(u)}
    /\ DOMAIN notificacoes' = {n \in DOMAIN notificacoes :
                                 notificacoes[n].lembrete_id \notin LembretesDe(u)}

\* C15: deleting a user removes all of their reminders and tags together with
\* the notifications and the links of those, and after any sequence of
\* deletions of users, reminders and tags no link, notification, reminder or
\* tag refers to a row that no longer exists
C15_Cascata ==
  /\ []Integridade
  /\ [][\A u \in Usuarios : RemoveUsuario(u)]_vars

\* user 2, who owned a linked reminder with a notification, was deleted; the
\* linked reminder and tag of user 1 are still there
C15_Witness ==
  /\ DOMAIN usuarios = {1}
  /\ DOMAIN lembretes = {2} /\ DOMAIN tags = {2}
  /\ lembretes_tags = {<<2, 2>>}
  /\ notificacoes = << >>

\* C16: in every state reached by creating and deleting tags and reminders
\* and by replacing associations, by any user, every link joins a reminder
\* and a tag that belong to the same user
C16_MesmoDono ==
  \A lt \in lembretes_tags :
    (lt[1] \in DOMAIN lembretes /\ lt[2] \in DOMAIN tags) =>
      lembretes[lt[1]].usuario_id = tags[lt[2]].usuario_id

\* each user has linked an own tag to an own reminder, and an association of
\* the other user's tag has just been refused
C16_Witness ==
  /\ \E l1, l2 \in DOMAIN lembretes, t1, t2 \in DOMAIN tags :
       /\ lembretes[l1].usuario_id = 1 /\ tags[t1].usuario_id = 1
       /\ lembretes[l2].usuario_id = 2 /\ tags[t2].usuario_id = 2
       /\ {<<l1, t1>>, <<l2, t2>>} \subseteq lembretes_tags
       /\ resp.op = AssocOp /\ resp.user = 1 /\ resp.id = l1
       /\ resp.body.tagIds = TagIdsArray(<<t2>>)
  /\ resp.code = HttpStatus.BAD_REQUEST

-----------------------------------------------------------------------------
(* Properties of the Messaging Gateway (SpecGateway, SpecGatewayVivo) *)

\* the response in resp answers a request whose call of the provider failed
FalhaDoGateway ==
  /\ resp.op \in {VerificarOp, SalvarOp}
  /\ pedido.op = resp.op /\ pedido.chamadas > 0
  /\ pedido.retorno.k \in {"http", "rede"}

\* C19, as stated: a request whose call of the provider (verify numbers,
\* send contact) failed is answered with a 400 error response that carries
\* the provider's detail, after exactly one call of the provider, and never
\* with 500.
C19_Original ==
  FalhaDoGateway =>
    /\ resp.code = HttpStatus.BAD_REQUEST
    /\ pedido.retorno.data \in resp.data
    /\ pedido.chamadas = 1 /\ pedido.respostas = 1

\* the api_key of the request is the key of no user
ChaveDesconhecida ==
  /\ pedido.op = SalvarOp /\ pedido.pc = "select"
  /\ \A u \in DOMAIN usuarios : usuarios[u].api_key # pedido.api_key

\* C20, as stated: POST /verificacao/salvar-contato with an api_key that
\* matches no user is eventually answered with the 404 envelope 'Usuario nao
\* encontrado', sent by the error handler as the one response of the request.
C20_Original ==
  ChaveDesconhecida
    ~> (/\ resp.op = SalvarOp /\ resp.code = HttpStatus.NOT_FOUND
        /\ resp.msg = "Usuario nao encontrado"
        /\ pedido.respostas = 1)

-----------------------------------------------------------------------------
(* Properties of the stored recurrence fields (SpecValid) *)

\* the row or the body is a recurring Monthly or Yearly reminder
MensalOuAnual(x) == x.frequencia \in {"Mensal", "Anual"}

\* C21, as stated: the stored dia of every recurring Monthly or Yearly
\* reminder lies in 1..31, and a Create or Update of an own reminder whose
\* body is recurring Monthly or Yearly with a dia outside 1..31 is rejected
\* with a validation error.
C21_Original ==
  /\ \A l \in DOMAIN lembretes :
       (TruthyI(lembretes[l].recorrente) /\ MensalOuAnual(lembretes[l]))
         => (lembretes[l].dia.k = "int" /\ lembretes[l].dia.v \in 1..31)
  /\ (resp.op \in {"POST /lembretes", "PUT /lembretes/:id"}
        /\ resp.code # HttpStatus.NOT_FOUND
        /\ TruthyB(resp.body.recorrente) /\ MensalOuAnual(resp.body)
        /\ resp.body.dia.k = "int" /\ resp.body.dia.v \notin 1..31)
       => resp.code = HttpStatus.BAD_REQUEST


-----------------------------------------------------------------------------
(* The weekly schedule: one weekly reminder of user 1, listed at every      *)
(* instant of the days 0..MaxDia, each response delivered before the next   *)
(* request                                                                  *)

CorposSemana ==
  [titulo : {"T"},
   tipo : {"Normal"},
   data_hora : {Null},
   recorrente : {"true"},
   frequencia : {"Semanal"},
   dia : {Null},
   hora : {Hora(0, 0), Hora(10, 30), Hora(23, 59), HoraS(10, 30, 45), Hora(25, 0)},
   dia_semana : diasValidos,
   mes : {NULL}]

NextSemana ==
  \/ \E b \in CorposSemana : lembreteSeq = 1 /\ resp.op = "none" /\ PostLembrete(1, b)
  \/ lembreteSeq > 1 /\ resp.op = "none" /\ GetLembretes(1, UNDEF, UNDEF)
  \/ Entrega
  \/ \E t \in Instantes : resp.op = "none" /\ Proximo(t) /\ Tick(t)

SpecSemana == Init /\ [][NextSemana]_vars

-----------------------------------------------------------------------------
(* Properties of the weekly schedule (SpecSemana) *)

\* the weekly reminder falls on the weekday of the clock and its time of day
\* is before the clock
PassouHojeSemanal(row, t) ==
  /\ Semanal(row) /\ TruthyH(row.hora)
  /\ row.dia_semana = NomeDoDia(t \div SegPorDia)
  /\ SegundosDe(row.hora) < t % SegPorDia

\* C22: a Weekly reminder whose dia_semana is the weekday of the clock and
\* whose time of day has passed today is listed with today's instant, which
\* is in the past: the resolver advances by whole days until the weekday
\* matches and never moves on to the next week.
C22_SemanalHoje ==
  [][(Listagem /\ PassouHojeSemanal(lembretes'[1], agora))
       => /\ lista'[1].k = "iso"
          /\ lista'[1].dia = agora \div SegPorDia
          /\ <<lista'[1].hh, lista'[1].mm, lista'[1].ss>>
               = <<lembretes'[1].hora.v[1], lembretes'[1].hora.v[2], 0>>
          /\ Instante(lista'[1]) < agora
          /\ AvancaAteDia(Instante(lista'[1]), diasSemana(lembretes'[1].dia_semana), 0).n = 0]_vars

\* a weekly reminder of Quarta 10:30 listed on Wednesday of the first week
\* at 23:59:59 resolved to 10:30 of that day
C22_Witness ==
  /\ ListaOk(resp) /\ 1 \in resp.data
  /\ Semanal(lembretes[1])
  /\ lembretes[1].dia_semana = "Quarta"
  /\ lembretes[1].hora.v = <<10, 30, 0>>
  /\ agora = 3 * SegPorDia + 23 * 3600 + 59 * 60 + 59
  /\ lista[1] = [k |-> "iso", dia |-> 3, hh |-> 10, mm |-> 30, ss |-> 0]


-----------------------------------------------------------------------------
(* Termination of the listing (SpecResolve) *)

\* the row enters the while loop of the 'Semanal' case
EntraNoLacoSemanal(row) == Semanal(row) /\ TruthyH(row.hora)

\* the result of the loop for a row read at instant t
LacoSemanal(row, t) ==
  AvancaAteDia(setHours(t, row.hora.v[1], row.hora.v[2]), diasSemana(row.dia_semana), 0)

-----------------------------------------------------------------------------
(* Lists of tag ids with repeated ids (SpecAssoc) *)

\* the list names a tag of user u more than once
RepeteTagDoDono(tagIds, u) ==
  /\ tagIds.k = "array"
  /\ \E i, j \in 1..Len(tagIds.v) :
       /\ i # j /\ tagIds.v[i] = tagIds.v[j]
       /\ tagIds.v[i] \in DOMAIN tags /\ tags[tagIds.v[i]].usuario_id = u

-----------------------------------------------------------------------------
(* Calls without a list of tag ids (SpecAssoc) *)

\* tagIds is missing, not an array, or an empty array
SemLista(tagIds) == tagIds.k # "array" \/ Len(tagIds.v) = 0

\* C30: a call whose tagIds is missing, not an array or empty is answered
\* 400 for the missing list whether or not the reminder exists or belongs to
\* the caller, opens no transaction and changes no link; a call answered 200
\* leaves its reminder with at least one link.
C30_ListaObrigatoria ==
  [][/\ (resp.op = "none" /\ resp'.op = AssocOp /\ SemLista(resp'.body.tagIds))
          => /\ resp'.code = HttpStatus.BAD_REQUEST
             /\ resp'.msg = "Lista de IDs de tags e obrigatoria"
             /\ lembretes_tags' = lembretes_tags
             /\ tx = TxIdle /\ tx' = TxIdle
     /\ (resp'.op = AssocOp /\ resp'.code = HttpStatus.OK)
          => /\ ~SemLista(resp'.body.tagIds)
             /\ LinksDe(lembretes_tags', resp'.id) # {}]_vars

\* user 2 sent an empty list for reminder 1 of user 1: answered 400 for the
\* list, not 404, and the links of the reminder are as they were
C30_Witness ==
  /\ resp.op = AssocOp /\ resp.code = HttpStatus.BAD_REQUEST
  /\ resp.user = 2 /\ resp.id = 1
  /\ resp.body.tagIds = TagIdsArray(<<>>)
  /\ 1 \in DOMAIN lembretes /\ lembretes[1].usuario_id = 1
  /\ TagsDoLembrete(1) = {1}


-----------------------------------------------------------------------------
(* Concurrent calls of POST /tags/lembrete/:lembreteId: each request holds  *)
(* a connection of the pool and runs its transaction statement by statement *)
(* against InnoDB at its default isolation level, REPEATABLE READ.  A       *)
(* statement that has to wait for a lock of the other transaction is not    *)
(* enabled until the lock is released.                                      *)

\* the tag ids that the requests of SpecConc name
MaxTagsConc == 2

\* the other connection
Outra(c) == CHOOSE o \in Conexoes : o # c

\* the connection has run its DELETE and not ended its transaction
AposDelete(c) == conexoes[c].pc \in {"insert", "commit"}

\* the same table read at READ COMMITTED: a DELETE leaves no gap lock
TemGap_readCommitted(c, id) ==
  FALSE

\* the DELETE ... WHERE lembrete_id = id of c locked the index range of id
TemGap(c, id) ==
  AposDelete(c) /\ conexoes[c].id = id

\* c holds exclusive locks on index records of id: the rows its DELETE
\* removed and the rows it has inserted
TemLinhas(c, id) ==
  /\ AposDelete(c) /\ conexoes[c].id = id
  /\ conexoes[c].del # {} \/ conexoes[c].ins # {}

\* the DELETE of c scans the rows of its reminder and waits for the record
\* locks of the other transaction
DeleteEspera(c) == TemLinhas(Outra(c), conexoes[c].id)

\* the INSERT of c waits for the gap lock of the other transaction
InsertEspera(c) == TemGap(Outra(c), conexoes[c].id)

\* the next statement of c waits for a lock
Espera(c) ==
  \/ conexoes[c].pc = "delete" /\ DeleteEspera(c)
  \/ conexoes[c].pc = "insert" /\ InsertEspera(c)

\* the response of the request that holds connection c
RespostaConc(c, code) ==
  [(IF code = HttpStatus.OK
      THEN Sucesso(AssocOp, conexoes[c].user, conexoes[c].id, code, {})
      ELSE Falha(AssocOp, conexoes[c].user, conexoes[c].id,
                 AppError(code, "Erro ao associar tags ao lembrete")))
   EXCEPT !.body = CorpoAssoc(TagIdsArray(conexoes[c].tagIds), conexoes[c].del)]

\* getConnection, beginTransaction, the check of tagIds and the two SELECTs,
\* which read the committed rows
ConcInicio(c, u, id, tagIds) ==
  /\ conexoes[c].pc = "idle"
  /\ LET code == IF tagIds.k # "array" \/ Len(tagIds.v) = 0 THEN HttpStatus.BAD_REQUEST
                 ELSE IF ~LembreteDoUsuario(id, u) THEN HttpStatus.NOT_FOUND
                 ELSE IF Cardinality(TagsDoUsuario(tagIds.v, u)) # Len(tagIds.v)
                   THEN HttpStatus.BAD_REQUEST
                 ELSE 0 IN
     /\ conexoes' = [conexoes EXCEPT ![c] =
                       [pc |-> IF code = 0 THEN "delete" ELSE "fim",
                        user |-> u, id |-> id,
                        tagIds |-> IF tagIds.k = "array" THEN tagIds.v ELSE <<>>,
                        i |-> 1, ins |-> {}, del |-> {}, code |-> code]]
     /\ resp' = IF code = 0 THEN resp
                ELSE [Falha(AssocOp, u, id, AppError(code, "Erro ao associar tags ao lembrete"))
                      EXCEPT !.body = CorpoAssoc(tagIds, {})]
  /\ UNCHANGED <<store, tx, lista, agora, esquema, pedido, edicao, contas, reqUser>>

\* DELETE FROM lembretes_tags WHERE lembrete_id = ?: a locking read of the
\* committed rows of the reminder
ConcDelete(c) ==
  /\ conexoes[c].pc = "delete"
  /\ ~DeleteEspera(c)
  /\ conexoes' = [conexoes EXCEPT ![c].pc = "insert",
                                  ![c].del = TagsDoLembrete(conexoes[c].id)]
  /\ UNCHANGED <<store, tx, resp, lista, agora, esquema, pedido, edicao, contas, reqUser>>

\* INSERT INTO lembretes_tags (lembrete_id, tag_id) VALUES (?, ?) for the
\* next tagId; the primary key is checked against the rows the transaction
\* sees
ConcInsert(c) ==
  /\ conexoes[c].pc = "insert"
  /\ ~InsertEspera(c)
  /\ LET x == conexoes[c]
         t == x.tagIds[x.i] IN
     IF t \in x.ins \/ (<<x.id, t>> \in lembretes_tags /\ t \notin x.del) THEN
       \* ER_DUP_ENTRY: catch, rollback, 500
       /\ conexoes' = [conexoes EXCEPT ![c].pc = "fim", ![c].ins = {}, ![c].del = {},
                                       ![c].code = HttpStatus.INTERNAL_SERVER_ERROR]
       /\ resp' = RespostaConc(c, HttpStatus.INTERNAL_SERVER_ERROR)
     ELSE
       /\ conexoes' = [conexoes EXCEPT ![c].ins = @ \cup {t}, ![c].i = @ + 1,
                                       ![c].pc = IF x.i = Len(x.tagIds) THEN "commit"
                                                 ELSE "insert"]
       /\ resp' = resp
  /\ UNCHANGED <<store, tx, lista, agora, esquema, pedido, edicao, contas, reqUser>>

\* connection.commit() and the 200 response: the rows the transaction
\* deleted go, the rows it inserted appear, its locks are released
ConcCommit(c) ==
  /\ conexoes[c].pc = "commit"
  /\ lembretes_tags' = (lembretes_tags \ {<<conexoes[c].id, t>> : t \in conexoes[c].del})
                         \cup {<<conexoes[c].id, t>> : t \in conexoes[c].ins}
  /\ conexoes' = [conexoes EXCEPT ![c].pc = "fim", ![c].code = HttpStatus.OK]
  /\ resp' = RespostaConc(c, HttpStatus.OK)
  /\ UNCHANGED <<lembretes, lembreteSeq, tags, tagSeq, notificacoes, notifSeq,
                 tx, lista, agora, esquema, pedido, edicao, contas, reqUser>>

\* the statement c waits with is rejected (ER_LOCK_DEADLOCK when the server
\* picks c as the victim of a deadlock, ER_LOCK_WAIT_TIMEOUT when the wait
\* lasts too long); an INSERT is also in a deadlock when the DELETE of the
\* other transaction waits for a row of c next to the place of the new row.
\* catch: rollback, 500
ConcErro(c) ==
  /\ \/ Espera(c)
     \/ /\ conexoes[c].pc = "insert"
        /\ conexoes[Outra(c)].pc = "delete" /\ DeleteEspera(Outra(c))
  /\ conexoes' = [conexoes EXCEPT ![c].pc = "fim", ![c].ins = {}, ![c].del = {},
                                  ![c].code = HttpStatus.INTERNAL_SERVER_ERROR]
  /\ resp' = RespostaConc(c, HttpStatus.INTERNAL_SERVER_ERROR)
  /\ UNCHANGED <<store, tx, lista, agora, esquema, pedido, edicao, contas, reqUser>>

\* reminder 1 of user 1, linked to nothing or to tag 1; tags 1 and 2 of
\* user 1 and tag 3 of user 2
InitConc ==
  /\ esquema = "banco_corrigido"
  /\ lembretes = (1 :> ValoresCriacao(1, Corpo("T")))
  /\ lembreteSeq = 2
  /\ tags = (1 :> [usuario_id |-> 1, nome |-> "n1", cor |-> "#FFFFFF", icone |-> NULL]
              @@ 2 :> [usuario_id |-> 1, nome |-> "n2", cor |-> "#FFFFFF", icone |-> NULL]
              @@ 3 :> [usuario_id |-> 2, nome |-> "n3", cor |-> "#FFFFFF", icone |-> NULL])
  /\ tagSeq = 4
  /\ lembretes_tags \in {{}, {<<1, 1>>}}
  /\ notificacoes = <<>>
  /\ notifSeq = 1
  /\ tx = TxIdle
  /\ resp = NoResp
  /\ lista = <<>>
  /\ agora = 0
  /\ ContasIniciais

\* the tagIds of the requests of SpecConc
ListasConc == ListasTagIds(MaxTagsConc)

NextConc ==
  \/ \E c \in Conexoes, u \in Usuarios, l \in ListasConc : ConcInicio(c, u, 1, l)
  \/ \E c \in Conexoes : ConcDelete(c)
  \/ \E c \in Conexoes : ConcInsert(c)
  \/ \E c \in Conexoes : ConcCommit(c)
  \/ \E c \in Conexoes : ConcErro(c)

SpecConc == InitConc /\ [][NextConc]_vars

-----------------------------------------------------------------------------
(* Properties of concurrent association calls (SpecConc) *)

\* the requests answered 200
Sucedidas == {c \in Conexoes : conexoes[c].code = HttpStatus.OK}

\* both requests passed the checks of tagIds, reminder and tags and have
\* been answered
AmbasTerminadas ==
  \A c \in Conexoes :
    conexoes[c].pc = "fim"
      /\ conexoes[c].code \in {HttpStatus.OK, HttpStatus.INTERNAL_SERVER_ERROR}

\* C25: two calls for the same reminder with valid lists T1 and T2, their
\* statements interleaved as the locks of the table allow: once a call has
\* been answered 200 the committed links of the reminder are the tags of a
\* call answered 200, never the union or a mixture of both lists, and when
\* both calls have ended at least one of them was answered 200.
C25_UmaOuOutra ==
  /\ Sucedidas # {}
       => \E c \in Sucedidas : TagsDoLembrete(1) = Elementos(conexoes[c].tagIds)
  /\ AmbasTerminadas => Sucedidas # {}

\* both calls ran their DELETE on a reminder without links, [A] and [B]
\* waited for each other at the INSERT, the first was rejected and answered
\* 500, the second answered 200: the links are {B}
C25_Witness ==
  /\ AmbasTerminadas
  /\ conexoes[1].tagIds = <<1>> /\ conexoes[1].code = HttpStatus.INTERNAL_SERVER_ERROR
  /\ conexoes[2].tagIds = <<2>> /\ conexoes[2].code = HttpStatus.OK
  /\ TagsDoLembrete(1) = {2}


-----------------------------------------------------------------------------
(* PUT /lembretes/:id statement by statement: other requests are served     *)
(* between its SELECT and its UPDATE                                        *)

\* router.put('/:id') up to the UPDATE: the SELECT of the reminder, the
\* validation of the body and the bind values
PutLembreteSelect(u, id, b) ==
  /\ edicao.pc = "idle"
  /\ LET v == ValidaAtualizacao(b)
         op == "PUT /lembretes/:id" IN
     IF ~LembreteDoUsuario(id, u) THEN
       /\ resp' = [Falha(op, u, id, AppError(HttpStatus.NOT_FOUND, "Lembrete nao encontrado"))
                   EXCEPT !.body = b]
       /\ edicao' = edicao
     ELSE IF v # "ok" THEN
       /\ resp' = [Falha(op, u, id, AppError(HttpStatus.BAD_REQUEST, v)) EXCEPT !.body = b]
       /\ edicao' = edicao
     ELSE IF TemUndefined(b) THEN
       /\ resp' = [Falha(op, u, id, TypeError("Bind parameters must not contain undefined"))
                   EXCEPT !.body = b]
       /\ edicao' = edicao
     ELSE
       /\ resp' = resp
       /\ edicao' = [pc |-> "update", user |-> u, id |-> id, body |-> b]
  /\ lista' = <<>>
  /\ UNCHANGED <<store, tx, agora, esquema, pedido, conexoes, contas, reqUser>>

\* the same UPDATE followed by `if (result.affectedRows === 0) throw
\* new AppError(404)`
PutLembreteUpdate_affectedRows ==
  /\ edicao.pc = "update"
  /\ LET u == edicao.user
         id == edicao.id
         b == edicao.body
         op == "PUT /lembretes/:id" IN
     IF ~LembreteDoUsuario(id, u) THEN
       /\ resp' = [Falha(op, u, id, AppError(HttpStatus.NOT_FOUND, "Lembrete nao encontrado"))
                   EXCEPT !.body = b]
       /\ UNCHANGED store
     ELSE IF ~DbAceitaLembrete(ValoresAtualizacao(lembretes[id], b)) THEN
       /\ resp' = [Falha(op, u, id, DbError("ER_TRUNCATED_OR_NULL")) EXCEPT !.body = b]
       /\ UNCHANGED store
     ELSE
       /\ lembretes' = [lembretes EXCEPT ![id] = ValoresAtualizacao(lembretes[id], b)]
       /\ resp' = [Sucesso(op, u, id, HttpStatus.OK, {}) EXCEPT !.body = b]
       /\ UNCHANGED <<lembreteSeq, tags, tagSeq, lembretes_tags, notificacoes, notifSeq>>
  /\ edicao' = SemEdicao
  /\ lista' = <<>>
  /\ UNCHANGED <<tx, agora, esquema, pedido, conexoes, contas, reqUser>>

\* UPDATE lembretes SET ... WHERE id = ? AND usuario_id = ? and the 200
\* response; the result of the UPDATE is not read, and an UPDATE that matches
\* no row changes nothing and raises no error
PutLembreteUpdate ==
  /\ edicao.pc = "update"
  /\ LET u == edicao.user
         id == edicao.id
         b == edicao.body
         op == "PUT /lembretes/:id" IN
     IF ~LembreteDoUsuario(id, u) THEN
       /\ resp' = [Sucesso(op, u, id, HttpStatus.OK, {}) EXCEPT !.body = b]
       /\ UNCHANGED store
     ELSE IF ~DbAceitaLembrete(ValoresAtualizacao(lembretes[id], b)) THEN
       /\ resp' = [Falha(op, u, id, DbError("ER_TRUNCATED_OR_NULL")) EXCEPT !.body = b]
       /\ UNCHANGED store
     ELSE
       /\ lembretes' = [lembretes EXCEPT ![id] = ValoresAtualizacao(lembretes[id], b)]
       /\ resp' = [Sucesso(op, u, id, HttpStatus.OK, {}) EXCEPT !.body = b]
       /\ UNCHANGED <<lembreteSeq, tags, tagSeq, lembretes_tags, notificacoes, notifSeq>>
  /\ edicao' = SemEdicao
  /\ lista' = <<>>
  /\ UNCHANGED <<tx, agora, esquema, pedido, conexoes, contas, reqUser>>

\* the reminders that the requests of SpecEdicao name
MaxLembretesEdicao == 3

\* the bodies of the updates of SpecEdicao
CorposEdicao ==
  {Corpo("T"), Corpo("U"), Corpo(UNDEF),
   [Corpo("T") EXCEPT !.recorrente = "true", !.frequencia = "Semanal"],
   [Corpo("T") EXCEPT !.recorrente = "true", !.frequencia = "Semanal",
                      !.hora = Hora(10, 30), !.dia_semana = "Feira"],
   [Corpo("T") EXCEPT !.recorrente = "true", !.frequencia = "Diaria",
                      !.hora = Hora(10, 30)]}

NextEdicao ==
  \/ \E u \in Usuarios :
       resp.op = "none" /\ lembreteSeq <= MaxLembretesEdicao /\ PostLembrete(u, Corpo("T"))
  \/ \E u \in Usuarios, id \in 1..MaxLembretesEdicao, b \in CorposEdicao :
       resp.op = "none" /\ PutLembreteSelect(u, id, b)
  \/ resp.op = "none" /\ PutLembreteUpdate
  \/ \E u \in Usuarios, id \in 1..MaxLembretesEdicao :
       resp.op = "none" /\ DeleteLembrete(u, id)
  \/ Entrega

SpecEdicao == InitPovoado /\ [][NextEdicao]_vars

-----------------------------------------------------------------------------
(* Properties of the update of a reminder (SpecEdicao) *)

\* C26, as stated: Update answers 200 only if a row was updated: a 200 is
\* sent for a reminder that exists, belongs to the caller and now holds the
\* values of the request; when the reminder was deleted between the SELECT
\* and the UPDATE, Update does not answer 200.
C26_Original ==
  [][(resp.op = "none" /\ resp'.op = "PUT /lembretes/:id" /\ resp'.code = HttpStatus.OK)
       => /\ LembreteDoUsuario(resp'.id, resp'.user)
          /\ lembretes'[resp'.id] = ValoresAtualizacao(lembretes[resp'.id], resp'.body)]_vars


-----------------------------------------------------------------------------
(* The status of a reminder over the whole API (Spec) *)

\* the step is a notification insert for reminder l answered 201
InsereNotificacaoDe(l) ==
  /\ resp'.op = "POST /notificacoes" /\ resp'.code = HttpStatus.CREATED
  /\ resp'.id \in DOMAIN notificacoes' /\ resp'.id \notin DOMAIN notificacoes
  /\ notificacoes'[resp'.id].lembrete_id = l

\* C27: a reminder is created with status Ativo; the only change of the
\* status of a reminder is from Ativo to Concluido, in the step that inserts
\* a notification of that reminder; no step changes the owner of a reminder,
\* and the update of a reminder and the update and delete of a notification
\* leave every status as it is; no reminder is ever Cancelado.
C27_Status ==
  /\ [](\A l \in DOMAIN lembretes : lembretes[l].status \in {"Ativo", "Concluido"})
  /\ [][\A l \in DOMAIN lembretes' :
          IF l \notin DOMAIN lembretes
            THEN /\ lembretes'[l].status = "Ativo"
                 /\ resp'.op = "POST /lembretes" /\ resp'.user = lembretes'[l].usuario_id
            ELSE /\ lembretes'[l].usuario_id = lembretes[l].usuario_id
                 /\ \/ lembretes'[l].status = lembretes[l].status
                    \/ /\ lembretes[l].status = "Ativo"
                       /\ lembretes'[l].status = "Concluido"
                       /\ InsereNotificacaoDe(l)]_vars

\* reminder 2 was created, completed by a notification, the notification
\* was deleted and the reminder updated: it is still Concluido
C27_Witness ==
  /\ resp.op = "PUT /lembretes/:id" /\ resp.code = HttpStatus.OK /\ resp.id = 2
  /\ lembretes[2].status = "Concluido" /\ lembretes[2].titulo = "T2"
  /\ \A n \in DOMAIN notificacoes : notificacoes[n].lembrete_id # 2


-----------------------------------------------------------------------------
(* The outcome of notifications (SpecNotif) *)

\* C28, as stated: no notification is ever stored with outcome Falha, every
\* notification created is stored with outcome Sucesso, the update of a
\* notification leaves its outcome as it is, and every notification created
\* for a reminder that is Ativo leaves that reminder Concluido.
C28_Original ==
  /\ [](\A n \in DOMAIN notificacoes : notificacoes[n].status = "Sucesso")
  /\ [][/\ \A n \in DOMAIN notificacoes \cap DOMAIN notificacoes' :
             notificacoes'[n].status = notificacoes[n].status
        /\ (resp.op = "none" /\ resp'.op = "POST /notificacoes"
              /\ resp'.code = HttpStatus.CREATED)
             => LET nova == notificacoes'[resp'.id] IN
                /\ resp'.id \notin DOMAIN notificacoes
                /\ nova.status = "Sucesso"
                /\ lembretes[nova.lembrete_id].status = "Ativo"
                     => lembretes'[nova.lembrete_id].status = "Concluido"]_vars


-----------------------------------------------------------------------------
(* Deactivated accounts: the protected routes behind authMiddleware and     *)
(* POST /usuarios/login, while users deactivate and try to reactivate their *)
(* accounts, rotate their keys and log in again                             *)

LoginOp == "POST /usuarios/login"

CorpoLogin(telefone, senha) == [telefone |-> telefone, senha |-> senha]

\* SELECT id, nome, senha, api_key, ... FROM usuarios WHERE telefone = ?
UsuariosDoTelefone(telefone) ==
  {u \in DOMAIN usuarios : usuarios[u].telefone = telefone}

\* jwt.sign({ userId }, JWT_SECRET, { expiresIn: '24h' }) at time t
jwtSign(userId, t) == Jwt(userId, "ok", t + SegPorDia)

\* router.post('/login'); senhaValida is the result of bcrypt.compare.  The
\* response carries the expiry of the token issued for user `id`
Login(b, senhaValida) ==
  /\ LET us == UsuariosDoTelefone(telefoneNumerico(b.telefone.v)) IN
     IF ~TruthyQ(b.telefone) \/ ~TruthyS(b.senha) THEN
       resp' = Falha(LoginOp, 0, 0, AppError(HttpStatus.BAD_REQUEST, "Erro de validacao"))
     ELSE IF us = {} \/ ~senhaValida THEN
       resp' = Falha(LoginOp, 0, 0, AppError(HttpStatus.UNAUTHORIZED, "Credenciais invalidas"))
     ELSE
       LET u == CHOOSE x \in us : TRUE IN
       resp' = Sucesso(LoginOp, u, u, HttpStatus.OK, {jwtSign(u, agora).exp})
  /\ lista' = <<>>
  /\ UNCHANGED <<store, tx, agora, esquema, pedido, conexoes, edicao, contas, reqUser>>

\* the token of a login answered 200
TokenDoLogin(r) == Jwt(r.id, "ok", CHOOSE e \in r.data : TRUE)

\* the keys that the requests of SpecInativo rotate through
MaxChavesInativo == 3

CredenciaisInativo ==
  {SemCabecalho}
    \cup {Chave(c) : c \in 1..(MaxChavesInativo + 1)}
    \cup {Jwt(u, a, e) : u \in 1..2, a \in {"ok", "invalida"}, e \in {SegPorDia, 2 * SegPorDia}}

CorposInativo ==
  {CorpoUsuario(UNDEF, "inativo"), CorpoUsuario(UNDEF, "ativo"), CorpoUsuario("c@x", "ativo")}

CorposLogin ==
  {CorpoLogin(Str(<<"1", "1">>), "s"), CorpoLogin(Str(<<"(", "2", ")", "2">>), "s"),
   CorpoLogin(Str(<<"3", "3">>), "s"), CorpoLogin(StrUndef, "s")}

NextInativo ==
  \/ \E cred \in CredenciaisInativo : Autenticar(cred)
  \/ Autenticado /\ GetPerfil(reqUser.userId)
  \/ Autenticado /\ chaveSeq <= MaxChavesInativo /\ RegenerarApiKey(reqUser.userId)
  \/ \E b \in CorposInativo : Autenticado /\ PutUsuario(reqUser.userId, b)
  \/ \E b \in CorposLogin, senhaValida \in BOOLEAN :
       resp.op = "none" /\ reqUser.k = "none" /\ Login(b, senhaValida)
  \/ resp.op = "none" /\ reqUser.k = "none" /\ agora < SegPorDia /\ Tick(SegPorDia)
  \/ Entrega

SpecInativo == Init /\ [][NextInativo]_vars

-----------------------------------------------------------------------------
(* Properties of deactivated accounts (SpecInativo) *)

Inativo(u) == u \in DOMAIN usuarios /\ usuarios[u].status = "inativo"

\* the credential is the API key of user u or a token for user u
CredencialDe(cred, u) ==
  \/ cred.k = "chave" /\ usuarios[u].api_key = cred.v
  \/ cred.k = "jwt" /\ cred.userId = u

=============================================================================
